---- MODULE Spec2Model ----
(***************************************************************************)
(* Frame loop of crates/libs/app (AppWrapper / BaseApp / InFlightFrames /   *)
(* FrameStats): the event handlers of the winit application, the steps of   *)
(* BaseApp::draw and of BaseApp::recreate_swapchain, and the GPU that       *)
(* completes the submitted command buffers asynchronously.                  *)
(***************************************************************************)
EXTENDS Integers, Naturals, Sequences, FiniteSets, TLC

\* ---------------------------------------------------------------- bounds
\* frames drawn before the model stops taking new frames
MaxFrames == 5
\* largest number of images a swapchain is created with
MaxImages == 3
\* largest value a GPU timestamp takes
MaxTimestamp == 1
\* largest number of request_swapchain_format_change calls in one App::update
MaxRequests == 2

\* frames drawn in the runs that follow the window and key events (RecreateSpec)
MaxRecreateFrames == 2
MaxLiveFrames == 3
\* frames drawn in the runs that follow the sizes of the window (ResizeSpec)
MaxResizeFrames == 3
\* frames drawn in the runs that follow the GUI textures (GuiSpec)
MaxGuiFrames == 5
\* number of GUI textures egui frees in a run
MaxTextures == 2
\* largest number of physical devices the instance lists
MaxDevices == 2
\* largest number of queue families of a physical device
MaxFamilies == 1
\* largest number of Vulkan objects the application object owns
MaxAppFields == 2
\* the sizes passed to the alignment functions lie within this distance of 0 and of
\* the largest value of their type
MaxSizeOffset == 3
\* largest exponent of the small alignments passed to the alignment functions
MaxAlignExp == 3
\* largest max_size of a Queue (FrameStats::MAX_LOG_SIZE is 1000)
MaxLogSize == 3
\* largest number of calls of Queue::push
MaxPushes == 5
\* largest frame time, in milliseconds, that is pushed
MaxFrameTimeMs == 2

\* ------------------------------------------------------ program constants
IN_FLIGHT_FRAMES == 2
\* the smallest image count of a swapchain (no single buffering)
MinImages == 2

Slots == 0..(IN_FLIGHT_FRAMES - 1)
ImageCounts == MinImages..MaxImages
Timestamps == 0..MaxTimestamp
\* Option<vk::SurfaceFormatKHR>: NoFormat is None, the others are two formats
NoFormat == "None"
FormatA == "FormatA"
FormatB == "FormatB"
Formats == {FormatA, FormatB}
\* the reports of acquire_next_image and queue_present that say the swapchain no
\* longer matches the surface
StaleReports == {"suboptimal", "out_of_date"}
\* the results of acquire_next_image and queue_present that say the call timed out or
\* has no image yet (vk::Result::TIMEOUT, vk::Result::NOT_READY)
TimeoutReports == {"timeout", "not_ready"}
\* the results draw matches with its catch-all arm: every vk::Result that is neither
\* success, suboptimal nor ERROR_OUT_OF_DATE_KHR
OtherResults == TimeoutReports \cup {"error"}
\* the ratios width / height a window size has
Ratios == {"4:3", "16:9"}
\* StatsDisplayMode
StatsDisplayModes == {"None", "Basic", "Full"}
\* image_index before an image is acquired
NoImage == -1
\* egui::TextureId of the textures egui reports as freed
TextureIds == 1..MaxTextures

VARIABLES
    pc,                          \* position of the event loop thread
    failure,                     \* message of the panic that ended the process
    is_swapchain_dirty,          \* AppWrapper::is_swapchain_dirty
    windowZero,                  \* window.inner_size() has a zero width or height
    requested_swapchain_format,  \* BaseApp::requested_swapchain_format
    format,                      \* about_to_wait's local `format`
    imageCount,                  \* swapchain.images.len()
    swapchainFormat,             \* swapchain.format (NoFormat: the default one)
    command_buffers,             \* BaseApp::command_buffers.len()
    current_frame,               \* InFlightFrames::current_frame
    fence,                       \* per slot: the fence is signaled
    queryPool,                   \* per slot: the results of the query pool are available
    gpuQueue,                    \* submissions the GPU has not completed, oldest first
    image_index,                 \* draw's local `image_index`
    total_frame_count,           \* FrameStats::total_frame_count
    gpu_time,                    \* FrameStats::gpu_time
    lastAcquire,                 \* result of acquire_next_image in the last draw
    lastPresent,                 \* result of queue_present in the last draw
    waited,                      \* history: per slot, fence wait returned since last submit
    recreations,                 \* history: recreations since the last draw returned
    callbacks,                   \* history: on_recreate_swapchain calls since then
    lastDraw,                    \* history: what the last draw returned
    undisturbed,                 \* history: no resize and no stale report so far
    slotLog,                     \* history: slots of the completed cycles while undisturbed
    calls,                       \* history: the swapchain and queue calls of the last draw
    raytracing_enabled,          \* BaseApp::raytracing_enabled (context.ray_tracing is Some)
    rpc,                         \* position inside record_command_buffer
    commands,                    \* history: the commands recorded since begin, until the submit
    lastAppOp,                   \* history: the last call of an App callback in the recording
    storage_images,              \* BaseApp::storage_images.len()
    guiFormat,                   \* the framebuffer format of the GUI renderer
    camera,                      \* BaseApp::camera
    stats_display_mode,          \* BaseApp::stats_display_mode
    windowRatio,                 \* width / height of window.inner_size() when not zero
    gui_textures_to_free,        \* per slot: PerFrame::gui_textures_to_free
    freeCalls,                   \* history: per texture, the calls of free_textures with it
    reportSlot,                  \* history: per texture, the slot of the frame that reported it freed
    devices,                     \* select_suitable_physical_device: the candidate devices
    selected,                    \* select_suitable_physical_device: what the call returned
    dropQueue,                   \* teardown: the objects of the wrapper still to be dropped, in order
    destroyed,                   \* teardown: the objects destroyed so far, in order
    alignArgs,                   \* compute_aligned_size(_of): the arguments of the call
    alignResult,                 \* compute_aligned_size(_of): what the call returned
    frame_time_ms_log,           \* FrameStats::frame_time_ms_log (Queue<f32>)
    pushed                       \* history: the values pushed on frame_time_ms_log

vars == <<pc, failure, is_swapchain_dirty, windowZero, requested_swapchain_format,
          format, imageCount, swapchainFormat, command_buffers, current_frame, fence,
          queryPool, gpuQueue, image_index, total_frame_count, gpu_time, lastAcquire,
          lastPresent, waited, recreations, callbacks, lastDraw, undisturbed, slotLog,
          calls, raytracing_enabled, rpc, commands, lastAppOp, storage_images,
          guiFormat, camera, stats_display_mode, windowRatio, gui_textures_to_free,
          freeCalls, reportSlot, devices, selected, dropQueue, destroyed, alignArgs,
          alignResult, frame_time_ms_log, pushed>>

\* the variables of the library calls and of the teardown, which the frame loop
\* leaves alone
libVars == <<devices, selected, dropQueue, destroyed, alignArgs, alignResult,
             frame_time_ms_log, pushed>>

guiVars == <<gui_textures_to_free, freeCalls, reportSlot>>

appVars == <<storage_images, guiFormat, camera, stats_display_mode, windowRatio>>

recordVars == <<raytracing_enabled, rpc, commands, lastAppOp>>
windowVars == <<windowZero>>
swapchainVars == <<imageCount, swapchainFormat>>
ringVars == <<current_frame, fence, queryPool>>
statsVars == <<total_frame_count, gpu_time>>
resultVars == <<lastAcquire, lastPresent>>
historyVars == <<waited, recreations, callbacks, lastDraw, undisturbed, slotLog>>

\* ------------------------------------------------------------- operators

\* mutant of NextFrame: the ring never advances
NextFrameStuck(cf) == cf

\* InFlightFrames::next
NextFrame(cf) == (cf + 1) % IN_FLIGHT_FRAMES

\* StatsDisplayMode::next
NextStatsDisplayMode(m) ==
    CASE m = "None" -> "Basic"
      [] m = "Basic" -> "Full"
      [] OTHER -> "None"

\* the camera BaseApp::new creates for a window of the ratio r
NewCamera(r) == [position |-> "initial", direction |-> "initial", aspect_ratio |-> r]

\* the storage images BaseApp::new and recreate_swapchain create: one per swapchain
\* image when ray tracing is enabled
StorageImagesFor(rt, n) == IF rt THEN n ELSE 0

\* u64::saturating_sub
SaturatingSub(a, b) == IF a >= b THEN a - b ELSE 0

\* InFlightFrames::gpu_frame_time_ms on the results of a query pool
GpuFrameTime(result) == SaturatingSub(result[2], result[1])

\* BaseApp::request_swapchain_format_change
RequestSwapchainFormatChange(cur, f) == f

\* a sequence of request_swapchain_format_change calls, applied in order
RECURSIVE ApplyRequests(_, _)
ApplyRequests(cur, reqs) ==
    IF reqs = <<>> THEN cur
    ELSE ApplyRequests(RequestSwapchainFormatChange(cur, Head(reqs)), Tail(reqs))

RequestSeqs == UNION {[1..n -> Formats] : n \in 0..MaxRequests}

\* Context::device_wait_idle returns once the queue holds no pending work
DeviceIdle == gpuQueue = <<>>

\* the command buffer is in the pending state: a submission of it has not completed
CbPending(i) == \E k \in 1..Len(gpuQueue) : gpuQueue[k].cb = i

\* the image indices acquire_next_image can hand out: every image the application
\* does not hold. draw presents the image it acquired before it returns, and the call
\* may return an image before the presentation engine and the GPU are done with it
\* (the image-available semaphore, not the return of the call, orders that)
AcquirableImages == 0..(imageCount - 1)

\* no slot: the value of a call argument that names no fence
NoSlot == IN_FLIGHT_FRAMES

\* no semaphore in a call
NoSemaphore == <<"none", NoSlot>>

\* InFlightFrames::image_available_semaphore of the slot cf
image_available_semaphore(cf) == <<"image_available", cf>>

\* InFlightFrames::render_finished_semaphore of the slot cf
render_finished_semaphore(cf) == <<"render_finished", cf>>

\* a call of draw on the swapchain or the queue: the semaphore it waits on, the
\* semaphore it signals and the slot of the fence it signals
Call(op, wait, signal, fnc) == [op |-> op, wait |-> wait, signal |-> signal, fence |-> fnc]

\* swapchain.acquire_next_image(u64::MAX, self.in_flight_frames.image_available_semaphore())
AcquireCall(cf) == Call("acquire", NoSemaphore, image_available_semaphore(cf), NoSlot)

\* self.record_command_buffer(command_buffer, image_index, ..)
RecordCall == Call("record", NoSemaphore, NoSemaphore, NoSlot)

\* graphics_queue.submit(command_buffer, wait image_available, signal render_finished,
\* fence)
SubmitCall(cf) ==
    Call("submit", image_available_semaphore(cf), render_finished_semaphore(cf), cf)

\* swapchain.queue_present(image_index, &[render_finished_semaphore], present_queue)
PresentCall(cf) == Call("present", render_finished_semaphore(cf), NoSemaphore, NoSlot)

\* run: the `wrapper` of run goes out of scope, when run_app has returned or when a
\* panic unwinds through run, and the Drop impls destroy the GPU objects. The fields of
\* the wrapper are gone (they take the values of a wrapper that drew nothing); what the
\* GPU has not completed is still pending
WrapperDropped ==
    /\ is_swapchain_dirty' = FALSE
    /\ requested_swapchain_format' = NoFormat
    /\ format' = NoFormat
    /\ swapchainFormat' = NoFormat
    /\ command_buffers' = imageCount
    /\ current_frame' = 0
    /\ fence' = [s \in Slots |-> TRUE]
    /\ queryPool' = [s \in Slots |-> FALSE]
    /\ image_index' = NoImage
    /\ total_frame_count' = 0
    /\ gpu_time' = 0
    /\ waited' = [s \in Slots |-> FALSE]
    /\ recreations' = 0
    /\ callbacks' = 0
    /\ lastDraw' = "none"
    /\ undisturbed' = FALSE
    /\ slotLog' = <<>>
    /\ calls' = <<>>
    /\ rpc' = "none"
    /\ storage_images' = StorageImagesFor(raytracing_enabled, imageCount)
    /\ guiFormat' = NoFormat
    /\ camera' = NewCamera(windowRatio)
    /\ stats_display_mode' = "Basic"
    /\ gui_textures_to_free' = [s \in Slots |-> {}]
    /\ freeCalls' = [i \in TextureIds |-> 0]
    /\ reportSlot' = [i \in TextureIds |-> NoSlot]
    /\ UNCHANGED <<libVars, windowVars, windowRatio, imageCount, gpuQueue, raytracing_enabled,
                   commands>>

\* a command recorded into a command buffer, or a call on the device
Cmd(c) == [cmd |-> c, image |-> "none", old |-> "none", new |-> "none"]

\* CommandBuffer::pipeline_image_barriers, one ImageBarrier: the layout transition of
\* an image ("swapchain": swapchain.images[image_index], "storage":
\* storage_images[image_index])
Barrier(img, old, new) == [cmd |-> "barrier", image |-> img, old |-> old, new |-> new]

\* the outcome of a call that needs the ray-tracing context: the message of the panic
\* ("none": no panic) and the device call issued ("none": no call)
CallResult(panic, device) == [panic |-> panic, device |-> device]

\* mutant of trace_rays: the device call is issued without looking at the context
trace_raysUnchecked(rt) == CallResult("none", "cmd_trace_rays")

\* CommandBuffer::trace_rays on a command buffer whose ray_tracing is Some (rt) or None
trace_rays(rt) ==
    IF rt THEN CallResult("none", "cmd_trace_rays")
    ELSE CallResult("Cannot call CommandBuffer::trace_rays when ray tracing is not enabled",
                    "none")

\* CommandBuffer::build_acceleration_structures
build_acceleration_structures(rt) ==
    IF rt THEN CallResult("none", "cmd_build_acceleration_structures")
    ELSE CallResult("Cannot call CommandBuffer::build_acceleration_structures when ray tracing is not enabled",
                    "none")

\* VkContext::create_ray_tracing_pipeline
create_ray_tracing_pipeline(rt) ==
    IF rt THEN CallResult("none", "create_ray_tracing_pipelines")
    ELSE CallResult("Cannot call VkContext::create_ray_tracing_pipeline when ray tracing is not enabled",
                    "none")

\* the calls that need the ray-tracing context
RayTracingOps == {"trace_rays", "build_acceleration_structures",
                  "create_ray_tracing_pipeline"}

\* what an App callback calls on the command buffer or the context: a draw, or one of
\* the ray-tracing calls
AppOps == {"draw"} \cup RayTracingOps

\* the call `op` of an App callback, on a context whose ray_tracing is Some (rt) or None
AppCall(op, rt) ==
    CASE op = "trace_rays" -> trace_rays(rt)
      [] op = "build_acceleration_structures" -> build_acceleration_structures(rt)
      [] op = "create_ray_tracing_pipeline" -> create_ray_tracing_pipeline(rt)
      [] OTHER -> CallResult("none", "cmd_draw")

\* the positions of draw inside the call of acquire_next_image: the call is made, or
\* it waits for the presentation engine
AcquirePcs == {"acquire", "acquire_blocked"}

\* the process panics (a failed expect, an explicit panic!, an index out of bounds): the
\* panic unwinds through run and drops the wrapper
Panic(msg) ==
    /\ pc' = "panicked"
    /\ failure' = msg
    /\ lastAcquire' = "none"
    /\ lastPresent' = "none"
    /\ UNCHANGED lastAppOp
    /\ WrapperDropped

\* draw returns `dirty` to about_to_wait, which stores it in is_swapchain_dirty
DrawReturns(dirty) ==
    /\ pc' = "idle"
    /\ is_swapchain_dirty' = dirty
    /\ image_index' = NoImage
    /\ recreations' = 0
    /\ callbacks' = 0
    /\ lastDraw' = IF dirty THEN "dirty" ELSE "clean"

\* ------------------------------------------ select_suitable_physical_device

\* a queue family: graphics stands for supports_graphics() && supports_compute() &&
\* supports_timestamp_queries(), present for supports_present(), has_queues for
\* queue_count > 0
FamilyKinds ==
    {[graphics |-> g, present |-> p, has_queues |-> TRUE] : g \in BOOLEAN, p \in BOOLEAN}
        \cup {[graphics |-> TRUE, present |-> TRUE, has_queues |-> FALSE]}

\* a physical device: its queue families, and whether it supports the required
\* extensions, has a surface format and a present mode, and has the required features
\* (DeviceFeatures::is_compatible_with)
Devices ==
    [queue_families : UNION {[1..n -> FamilyKinds] : n \in 0..MaxFamilies},
     supported : BOOLEAN]

\* the lists of candidate devices
DeviceLists == UNION {[1..n -> Devices] : n \in 0..MaxDevices}

\* Option<QueueFamily>::None; a family is named by its device and its index
NoFamily == <<0, 0>>

\* the `for family in device.queue_families.iter().filter(|f| f.has_queues())` loop of
\* the closure, from the family k of the device d on; graphics and present are the
\* variables the closure captures
RECURSIVE ScanFamilies(_, _, _, _, _)
ScanFamilies(devs, d, k, graphics, present) ==
    IF k > Len(devs[d].queue_families) THEN [graphics |-> graphics, present |-> present]
    ELSE LET family == devs[d].queue_families[k] IN
         IF ~family.has_queues THEN ScanFamilies(devs, d, k + 1, graphics, present)
         ELSE LET g == IF family.graphics /\ graphics = NoFamily
                       THEN <<d, k>> ELSE graphics
                  p == IF family.present /\ present = NoFamily
                       THEN <<d, k>> ELSE present
              IN IF g # NoFamily /\ p # NoFamily
                 THEN [graphics |-> g, present |-> p]
                 ELSE ScanFamilies(devs, d, k + 1, g, p)

\* devices.iter().find(closure), from the device d on: graphics and present are
\* declared before the find and keep their values from one device to the next
RECURSIVE FindDevice(_, _, _, _)
FindDevice(devs, d, graphics, present) ==
    IF d > Len(devs) THEN [device |-> 0, graphics |-> graphics, present |-> present]
    ELSE LET r == ScanFamilies(devs, d, 1, graphics, present) IN
         IF r.graphics # NoFamily /\ r.present # NoFamily /\ devs[d].supported
         THEN [device |-> d, graphics |-> r.graphics, present |-> r.present]
         ELSE FindDevice(devs, d + 1, r.graphics, r.present)

\* the function has not been called
NotSelected == [result |-> "none", device |-> 0, graphics |-> NoFamily, present |-> NoFamily]

\* select_suitable_physical_device: Ok((device, graphics, present)), or the error
\* "Could not find a suitable device" of ok_or_else
select_suitable_physical_device(devs) ==
    LET found == FindDevice(devs, 1, NoFamily, NoFamily) IN
    IF found.device = 0
    THEN [result |-> "Err", device |-> 0, graphics |-> NoFamily, present |-> NoFamily]
    ELSE [result |-> "Ok", device |-> found.device, graphics |-> found.graphics,
          present |-> found.present]

\* Context::new calls select_suitable_physical_device on the devices of the instance
SelectDevice ==
    /\ selected = NotSelected
    /\ selected' = select_suitable_physical_device(devices)
    /\ UNCHANGED <<pc, failure, guiVars, devices, dropQueue, destroyed, alignArgs,
                   alignResult, frame_time_ms_log, pushed, recordVars, appVars, calls,
                   is_swapchain_dirty, windowVars, requested_swapchain_format, format,
                   swapchainVars, command_buffers, ringVars, gpuQueue, image_index,
                   statsVars, resultVars, historyVars>>

\* -------------------------------------------------------------------- utils

\* the widths of u32 and of vk::DeviceSize (u64)
U32_BITS == 32
U64_BITS == 64

\* an unsigned integer of w bits is the sequence of its bits, lowest first
FromNat(n, w) == [i \in 1..w |-> i <= 30 /\ (n \div (2 ^ (i - 1))) % 2 = 1]

PowerOfTwo(k, w) == [i \in 1..w |-> i = k + 1]

BitNot(a) == [i \in 1..Len(a) |-> ~a[i]]

BitAnd(a, b) == [i \in 1..Len(a) |-> a[i] /\ b[i]]

\* the carry into the bit i of a + b + c: the carry c, or the carry that a lower bit j
\* generates, passes through every bit below i in which a or b has a 1
Carry(a, b, c, i) ==
    \/ c /\ \A k \in 1..(i - 1) : a[k] \/ b[k]
    \/ \E j \in 1..(i - 1) :
          /\ a[j] /\ b[j]
          /\ \A k \in (j + 1)..(i - 1) : a[k] \/ b[k]

\* a + b + c modulo 2^w
AddCarry(a, b, c) ==
    [i \in 1..Len(a) |-> (a[i] # b[i]) # Carry(a, b, c, i)]

\* a + b does not fit in w bits
AddOverflows(a, b) == Carry(a, b, FALSE, Len(a) + 1)

\* a - b modulo 2^w, and a < b
BitSub(a, b) == AddCarry(a, BitNot(b), TRUE)

BitLess(a, b) == ~Carry(a, BitNot(b), TRUE, Len(a) + 1)

\* the arguments and the result before any call
NoAlignArgs == [fn |-> "none", size |-> <<>>, alignment |-> <<>>, again |-> FALSE]

NoAlignResult == [outcome |-> "none", value |-> <<>>]

\* (size + (alignment - 1)) & !(alignment - 1), the body of compute_aligned_size and
\* of compute_aligned_size_of, on the bits of the operands
AlignedValue(size, alignment) ==
    LET mask == BitSub(alignment, FromNat(1, Len(alignment))) IN
    BitAnd(AddCarry(size, mask, FALSE), BitNot(mask))

\* the outcomes of the body: the sum that overflows panics in a build with overflow
\* checks and wraps in a build without
AlignOutcomes(size, alignment) ==
    LET mask == BitSub(alignment, FromNat(1, Len(alignment))) IN
    IF AddOverflows(size, mask)
    THEN {[outcome |-> "panic", value |-> <<>>],
          [outcome |-> "wrapped", value |-> AlignedValue(size, alignment)]}
    ELSE {[outcome |-> "ok", value |-> AlignedValue(size, alignment)]}

\* the sizes near 0 and near the largest value max
SizesUpTo(max) ==
    {FromNat(n, Len(max)) : n \in 0..MaxSizeOffset}
        \cup {BitSub(max, FromNat(n, Len(max))) : n \in 0..MaxSizeOffset}

\* the powers of two of w bits: the small ones and the largest
Alignments(w) == {PowerOfTwo(k, w) : k \in (0..MaxAlignExp) \cup {w - 1}}

\* u32::MAX, and isize::MAX as a vk::DeviceSize, the largest size_of::<T>()
U32_MAX == BitNot(FromNat(0, U32_BITS))

ISIZE_MAX == [i \in 1..U64_BITS |-> i < U64_BITS]

\* the calls of the two functions
AlignCalls ==
    [fn : {"compute_aligned_size"}, size : SizesUpTo(U32_MAX),
     alignment : Alignments(U32_BITS), again : {FALSE}]
        \cup [fn : {"compute_aligned_size_of"}, size : SizesUpTo(ISIZE_MAX),
              alignment : Alignments(U64_BITS), again : {FALSE}]

\* compute_aligned_size(size, alignment)
ComputeAlignedSize ==
    /\ alignArgs.fn = "compute_aligned_size"
    /\ alignResult = NoAlignResult
    /\ alignResult' \in AlignOutcomes(alignArgs.size, alignArgs.alignment)
    /\ UNCHANGED <<pc, failure, guiVars, devices, selected, dropQueue, destroyed,
                   alignArgs, frame_time_ms_log, pushed, recordVars, appVars, calls,
                   is_swapchain_dirty, windowVars, requested_swapchain_format, format,
                   swapchainVars, command_buffers, ringVars, gpuQueue, image_index,
                   statsVars, resultVars, historyVars>>

\* compute_aligned_size_of::<T>(alignment), with size the size_of::<T>()
ComputeAlignedSizeOf ==
    /\ alignArgs.fn = "compute_aligned_size_of"
    /\ alignResult = NoAlignResult
    /\ alignResult' \in AlignOutcomes(alignArgs.size, alignArgs.alignment)
    /\ UNCHANGED <<pc, failure, guiVars, devices, selected, dropQueue, destroyed,
                   alignArgs, frame_time_ms_log, pushed, recordVars, appVars, calls,
                   is_swapchain_dirty, windowVars, requested_swapchain_format, format,
                   swapchainVars, command_buffers, ringVars, gpuQueue, image_index,
                   statsVars, resultVars, historyVars>>

\* the function is called on its own result, with the same alignment; a size_of is at
\* most isize::MAX
ComputeAlignedSizeAgain ==
    /\ alignResult.outcome \in {"ok", "wrapped"}
    /\ ~alignArgs.again
    /\ alignArgs.fn = "compute_aligned_size_of" => ~BitLess(ISIZE_MAX, alignResult.value)
    /\ alignArgs' = [alignArgs EXCEPT !.size = alignResult.value, !.again = TRUE]
    /\ alignResult' \in AlignOutcomes(alignResult.value, alignArgs.alignment)
    /\ UNCHANGED <<pc, failure, guiVars, devices, selected, dropQueue, destroyed,
                   frame_time_ms_log, pushed, recordVars, appVars, calls,
                   is_swapchain_dirty, windowVars, requested_swapchain_format, format,
                   swapchainVars, command_buffers, ringVars, gpuQueue, image_index,
                   statsVars, resultVars, historyVars>>

\* -------------------------------------------------------------------- Queue

\* mutant of push: a full queue drops its newest element
pushDropsNewest(q, value) ==
    [q EXCEPT !.values =
        (IF Len(q.values) = q.max_size
         THEN SubSeq(q.values, 1, Len(q.values) - 1) ELSE q.values) \o <<value>>]

\* Queue::push: self.0 is values, self.1 is max_size
push(q, value) ==
    [q EXCEPT !.values =
        (IF Len(q.values) = q.max_size THEN Tail(q.values) ELSE q.values) \o <<value>>]

\* FrameStats::tick pushes the time of the previous frame to frame_time_ms_log
TickPush ==
    /\ Len(pushed) < MaxPushes
    /\ \E ms \in 0..MaxFrameTimeMs :
          /\ frame_time_ms_log' = push(frame_time_ms_log, ms)
          /\ pushed' = pushed \o <<ms>>
    /\ UNCHANGED <<pc, failure, guiVars, devices, selected, dropQueue, destroyed,
                   alignArgs, alignResult, recordVars, appVars, calls,
                   is_swapchain_dirty, windowVars, requested_swapchain_format, format,
                   swapchainVars, command_buffers, ringVars, gpuQueue, image_index,
                   statsVars, resultVars, historyVars>>

\* ------------------------------------------------------------------ teardown

\* the kinds of Vulkan objects an implementation of App keeps in its fields
AppResources == {"app.buffer", "app.pipeline", "app.descriptor_pool"}

\* the fields of the application object in their declaration order, which the
\* implementation of App chooses
AppFieldOrders ==
    {s \in UNION {[1..n -> AppResources] : n \in 0..MaxAppFields} :
        \A i \in 1..Len(s) : \A j \in 1..Len(s) : s[i] = s[j] => i = j}

\* ImageAndView: view, then image, for each of the n storage images
RECURSIVE StorageImageFields(_)
StorageImageFields(n) ==
    IF n = 0 THEN <<>>
    ELSE <<"storage_image.view", "storage_image.image">> \o StorageImageFields(n - 1)

\* PerFrame, for each of the n entries of InFlightFrames::per_frames
RECURSIVE InFlightFramesFields(_)
InFlightFramesFields(n) ==
    IF n = 0 THEN <<>>
    ELSE <<"image_available_semaphore", "render_finished_semaphore", "fence",
           "timing_query_pool">> \o InFlightFramesFields(n - 1)

\* Context: the fields that own something, in declaration order
ContextFields(rt) ==
    <<"allocator", "context.command_pool">>
        \o (IF rt THEN <<"ray_tracing">> ELSE <<>>)
        \o <<"graphics_queue", "present_queue", "context.device", "surface", "instance",
             "_entry">>

\* mutant of BaseAppFields: context is declared first
BaseAppFieldsContextFirst(rt, n) ==
    ContextFields(rt)
        \o <<"swapchain", "command_pool">>
        \o StorageImageFields(StorageImagesFor(rt, n))
        \o <<"command_buffers">>
        \o InFlightFramesFields(IN_FLIGHT_FRAMES)
        \o <<"gui_context.renderer">>

\* BaseApp: the fields that own something, in declaration order
BaseAppFields(rt, n) ==
    <<"swapchain", "command_pool">>
        \o StorageImageFields(StorageImagesFor(rt, n))
        \o <<"command_buffers">>
        \o InFlightFramesFields(IN_FLIGHT_FRAMES)
        \o <<"gui_context.renderer">>
        \o ContextFields(rt)

\* AppWrapper: window, app, gui, base_app
WrapperFields(appFields, rt, n) ==
    <<"window">> \o appFields \o <<"gui">> \o BaseAppFields(rt, n)

\* the values that hold an Arc<Device>. Whether the swapchain, the images, their views
\* and the buffers hold one too does not change which value is the last to hold one.
HoldsDevice ==
    {"app.pipeline", "app.descriptor_pool", "command_pool", "command_buffers",
     "image_available_semaphore", "render_finished_semaphore", "fence",
     "timing_query_pool", "context.command_pool", "graphics_queue", "present_queue",
     "context.device"}

\* Device::drop runs when the last Arc<Device> is dropped: the value f holds one and
\* no value that is still to drop holds another
LastDeviceHandle(f, rest) ==
    /\ f \in HoldsDevice
    /\ \A i \in 1..Len(rest) : rest[i] \notin HoldsDevice

\* the next field of the wrapper is dropped, once `run` returns or unwinds
DropField ==
    /\ pc \in {"destroyed", "panicked"}
    /\ dropQueue # <<>>
    /\ dropQueue' = Tail(dropQueue)
    /\ destroyed' = destroyed \o <<Head(dropQueue)>>
                      \o (IF LastDeviceHandle(Head(dropQueue), Tail(dropQueue))
                          THEN <<"device">> ELSE <<>>)
    /\ UNCHANGED <<pc, failure, guiVars, devices, selected, alignArgs, alignResult,
                   frame_time_ms_log, pushed, recordVars, appVars, calls,
                   is_swapchain_dirty, windowVars, requested_swapchain_format, format,
                   swapchainVars, command_buffers, ringVars, gpuQueue, image_index,
                   statsVars, resultVars, historyVars>>

\* ------------------------------------------------------------------ Init
\* the frame loop after construction (BaseApp::new, AppWrapper in run)
InitApp ==
    /\ pc = "idle"
    /\ failure = "none"
    /\ is_swapchain_dirty = FALSE
    /\ windowZero = FALSE
    /\ requested_swapchain_format = NoFormat
    /\ format = NoFormat
    /\ imageCount \in ImageCounts
    /\ swapchainFormat = NoFormat
    /\ command_buffers = imageCount
    /\ current_frame = 0
    /\ fence = [s \in Slots |-> TRUE]
    /\ queryPool = [s \in Slots |-> FALSE]
    /\ gpuQueue = <<>>
    /\ image_index = NoImage
    /\ total_frame_count = 0
    /\ gpu_time = 0
    /\ lastAcquire = "none"
    /\ lastPresent = "none"
    /\ waited = [s \in Slots |-> FALSE]
    /\ recreations = 0
    /\ callbacks = 0
    /\ lastDraw = "none"
    /\ undisturbed = TRUE
    /\ slotLog = <<>>
    /\ calls = <<>>
    /\ raytracing_enabled = FALSE
    /\ rpc = "none"
    /\ commands = <<>>
    /\ lastAppOp = "none"
    /\ storage_images = StorageImagesFor(raytracing_enabled, imageCount)
    /\ guiFormat = NoFormat
    /\ windowRatio = "4:3"
    /\ camera = NewCamera(windowRatio)
    /\ stats_display_mode = "Basic"
    /\ gui_textures_to_free = [s \in Slots |-> {}]
    /\ freeCalls = [i \in TextureIds |-> 0]
    /\ reportSlot = [i \in TextureIds |-> NoSlot]

\* no library call is made and no teardown has begun
LibIdle ==
    /\ devices = <<>>
    /\ selected = NotSelected
    /\ dropQueue = <<>>
    /\ destroyed = <<>>
    /\ alignArgs = NoAlignArgs
    /\ alignResult = NoAlignResult
    /\ frame_time_ms_log = [values |-> <<>>, max_size |-> 1]
    /\ pushed = <<>>

\* the application constructed without ray tracing
Init == InitApp /\ LibIdle

\* ---------------------------------------------------------- window events

\* mutant of WindowResized: the event does not mark the swapchain dirty
WindowResizedKeepsFlag ==
    /\ pc = "idle"
    /\ \E z \in BOOLEAN : windowZero' = z
    /\ undisturbed' = FALSE
    /\ slotLog' = <<>>
    /\ UNCHANGED <<pc, failure, guiVars, libVars, is_swapchain_dirty, recordVars, appVars, calls, requested_swapchain_format, format, swapchainVars,
                   command_buffers, ringVars, gpuQueue, image_index, statsVars,
                   resultVars, waited, recreations, callbacks, lastDraw>>

\* AppWrapper::window_event, WindowEvent::Resized: the window has the new size
WindowResized ==
    /\ pc = "idle"
    /\ \E z \in BOOLEAN : windowZero' = z
    /\ is_swapchain_dirty' = TRUE
    /\ undisturbed' = FALSE
    /\ slotLog' = <<>>
    /\ UNCHANGED <<pc, failure, guiVars, libVars, recordVars, appVars, calls, requested_swapchain_format, format, swapchainVars,
                   command_buffers, ringVars, gpuQueue, image_index, statsVars,
                   resultVars, waited, recreations, callbacks, lastDraw>>

\* AppWrapper::window_event, WindowEvent::Resized: the window has a new size that is
\* not zero and has another ratio
WindowReshaped ==
    /\ pc = "idle"
    /\ windowZero' = FALSE
    /\ \E r \in Ratios \ {windowRatio} : windowRatio' = r
    /\ is_swapchain_dirty' = TRUE
    /\ undisturbed' = FALSE
    /\ slotLog' = <<>>
    /\ UNCHANGED <<pc, failure, guiVars, libVars, recordVars, storage_images, guiFormat, camera,
                   stats_display_mode, requested_swapchain_format, format, swapchainVars,
                   command_buffers, ringVars, gpuQueue, image_index, statsVars,
                   resultVars, waited, recreations, callbacks, lastDraw, calls>>

\* AppWrapper::window_event, WindowEvent::KeyboardInput, KeyR pressed:
\* base_app.toggle_stats()
ToggleStats ==
    /\ pc = "idle"
    /\ stats_display_mode' = NextStatsDisplayMode(stats_display_mode)
    /\ UNCHANGED <<pc, failure, guiVars, libVars, recordVars, storage_images, guiFormat, camera,
                   windowRatio, is_swapchain_dirty, windowVars,
                   requested_swapchain_format, format, swapchainVars, command_buffers,
                   ringVars, gpuQueue, image_index, statsVars, resultVars, historyVars,
                   calls>>

\* AppWrapper::window_event, WindowEvent::CloseRequested: event_loop.exit(). The loop
\* ends its iteration (the about_to_wait of that iteration is the AboutToWait before
\* this step) and calls exiting. No draw follows: the record of the last draw is
\* dropped
CloseRequested ==
    /\ pc = "idle"
    /\ pc' = "exiting"
    /\ lastAcquire' = "none"
    /\ lastPresent' = "none"
    /\ waited' = [s \in Slots |-> FALSE]
    /\ lastDraw' = "none"
    /\ undisturbed' = FALSE
    /\ slotLog' = <<>>
    /\ calls' = <<>>
    /\ UNCHANGED <<failure, guiVars, libVars, recordVars, appVars, is_swapchain_dirty, windowVars, requested_swapchain_format,
                   format, swapchainVars, command_buffers, ringVars, gpuQueue,
                   image_index, statsVars, recreations, callbacks>>

\* AppWrapper::exiting: wait_for_gpu() returns Ok; then run_app returns and the
\* `wrapper` of run goes out of scope: the Drop impls destroy the GPU objects
Exiting ==
    /\ pc = "exiting"
    /\ DeviceIdle
    /\ pc' = "destroyed"
    /\ WrapperDropped
    /\ UNCHANGED <<failure, resultVars, lastAppOp>>

\* AppWrapper::exiting: wait_for_gpu() returns Err
ExitingFails ==
    /\ pc = "exiting"
    /\ Panic("Failed to wait for gpu when exiting")

\* ---------------------------------------------------------- about_to_wait

\* mutant of AboutToWait: with a zero-size window the dirty flag is cleared
AboutToWaitClearsDirty ==
    /\ pc = "idle"
    /\ total_frame_count < MaxFrames
    /\ IF is_swapchain_dirty \/ requested_swapchain_format # NoFormat
       THEN /\ requested_swapchain_format' = NoFormat
            /\ IF ~windowZero
               THEN /\ format' = requested_swapchain_format
                    /\ pc' = "recreate_wait"
               ELSE /\ format' = NoFormat
                    /\ pc' = "idle"
            /\ is_swapchain_dirty' = (is_swapchain_dirty /\ ~windowZero)
       ELSE /\ pc' = "next"
            /\ UNCHANGED <<requested_swapchain_format, format, is_swapchain_dirty>>
    /\ UNCHANGED <<failure, guiVars, libVars, recordVars, appVars, calls, windowVars, swapchainVars,
                   command_buffers, ringVars, gpuQueue, image_index, statsVars,
                   resultVars, historyVars>>

\* AppWrapper::about_to_wait up to the call of recreate_swapchain or of draw
AboutToWait ==
    /\ pc = "idle"
    /\ total_frame_count < MaxFrames
    /\ IF is_swapchain_dirty \/ requested_swapchain_format # NoFormat
       THEN /\ requested_swapchain_format' = NoFormat
            /\ IF ~windowZero
               THEN /\ format' = requested_swapchain_format
                    /\ pc' = "recreate_wait"
               ELSE /\ format' = NoFormat
                    /\ pc' = "idle"
       ELSE /\ pc' = "next"
            /\ UNCHANGED <<requested_swapchain_format, format>>
    /\ UNCHANGED <<failure, guiVars, libVars, recordVars, appVars, calls, is_swapchain_dirty, windowVars, swapchainVars,
                   command_buffers, ringVars, gpuQueue, image_index, statsVars,
                   resultVars, historyVars>>

\* ------------------------------------------------------ recreate_swapchain

\* mutant of RecreateWaitIdle: recreate_swapchain does not wait for the device
RecreateWithoutWaitIdle ==
    /\ pc = "recreate_wait"
    /\ pc' = "recreate_update"
    /\ UNCHANGED <<failure, guiVars, libVars, recordVars, appVars, calls, is_swapchain_dirty, windowVars, requested_swapchain_format,
                   format, swapchainVars, command_buffers, ringVars, gpuQueue,
                   image_index, statsVars, resultVars, historyVars>>

\* BaseApp::recreate_swapchain: self.wait_for_gpu()? returns Ok
RecreateWaitIdle ==
    /\ pc = "recreate_wait"
    /\ DeviceIdle
    /\ pc' = "recreate_update"
    /\ UNCHANGED <<failure, guiVars, libVars, recordVars, appVars, calls, is_swapchain_dirty, windowVars, requested_swapchain_format,
                   format, swapchainVars, command_buffers, ringVars, gpuQueue,
                   image_index, statsVars, resultVars, historyVars>>

\* mutant of RecreateUpdate: about_to_wait draws without calling on_recreate_swapchain
RecreateUpdateSkipsCallback ==
    /\ pc = "recreate_update"
    /\ \E n \in ImageCounts : imageCount' = n
    /\ swapchainFormat' = IF format # NoFormat THEN format ELSE swapchainFormat
    /\ storage_images' = IF raytracing_enabled
                         THEN StorageImagesFor(raytracing_enabled, imageCount')
                         ELSE storage_images
    /\ guiFormat' = IF format # NoFormat THEN format ELSE guiFormat
    /\ camera' = [camera EXCEPT !.aspect_ratio = windowRatio]
    /\ recreations' = recreations + 1
    /\ undisturbed' = FALSE
    /\ slotLog' = <<>>
    /\ pc' = "next"
    /\ UNCHANGED <<failure, guiVars, libVars, recordVars, stats_display_mode, windowRatio, calls, is_swapchain_dirty, windowVars, requested_swapchain_format,
                   format, command_buffers, ringVars, gpuQueue, image_index, statsVars,
                   resultVars, waited, callbacks, lastDraw>>

\* mutant of RecreateUpdate: the recreation restarts the frame ring at slot 0
RecreateUpdateResetsRing ==
    /\ pc = "recreate_update"
    /\ \E n \in ImageCounts : imageCount' = n
    /\ swapchainFormat' = IF format # NoFormat THEN format ELSE swapchainFormat
    /\ storage_images' = IF raytracing_enabled
                         THEN StorageImagesFor(raytracing_enabled, imageCount')
                         ELSE storage_images
    /\ guiFormat' = IF format # NoFormat THEN format ELSE guiFormat
    /\ camera' = [camera EXCEPT !.aspect_ratio = windowRatio]
    /\ recreations' = recreations + 1
    /\ undisturbed' = FALSE
    /\ slotLog' = <<>>
    /\ current_frame' = 0
    /\ pc' = "on_recreate"
    /\ UNCHANGED <<failure, guiVars, libVars, recordVars, stats_display_mode, windowRatio, calls, is_swapchain_dirty, windowVars, requested_swapchain_format,
                   format, command_buffers, fence, queryPool, gpuQueue, image_index, statsVars,
                   resultVars, waited, callbacks, lastDraw>>

\* BaseApp::recreate_swapchain: Swapchain::update returns Ok, then the storage images,
\* the GUI renderer and the camera are updated
RecreateUpdate ==
    /\ pc = "recreate_update"
    /\ \E n \in ImageCounts : imageCount' = n
    /\ swapchainFormat' = IF format # NoFormat THEN format ELSE swapchainFormat
    /\ storage_images' = IF raytracing_enabled
                         THEN StorageImagesFor(raytracing_enabled, imageCount')
                         ELSE storage_images
    /\ guiFormat' = IF format # NoFormat THEN format ELSE guiFormat
    /\ camera' = [camera EXCEPT !.aspect_ratio = windowRatio]
    /\ recreations' = recreations + 1
    /\ undisturbed' = FALSE
    /\ slotLog' = <<>>
    /\ pc' = "on_recreate"
    /\ UNCHANGED <<failure, guiVars, libVars, recordVars, stats_display_mode, windowRatio, calls, is_swapchain_dirty, windowVars, requested_swapchain_format,
                   format, command_buffers, ringVars, gpuQueue, image_index, statsVars,
                   resultVars, waited, callbacks, lastDraw>>

\* recreate_swapchain returns Err: .expect("Failed to recreate swapchain")
RecreateFails ==
    /\ pc \in {"recreate_wait", "recreate_update"}
    /\ Panic("Failed to recreate swapchain")

\* App::on_recreate_swapchain returns Ok
OnRecreateSwapchain ==
    /\ pc = "on_recreate"
    /\ callbacks' = callbacks + 1
    /\ format' = NoFormat
    /\ pc' = "next"
    /\ UNCHANGED <<failure, guiVars, libVars, recordVars, appVars, calls, is_swapchain_dirty, windowVars, requested_swapchain_format,
                   swapchainVars, command_buffers, ringVars, gpuQueue, image_index,
                   statsVars, resultVars, waited, recreations, lastDraw, undisturbed,
                   slotLog>>

\* App::on_recreate_swapchain returns Err
OnRecreateSwapchainFails ==
    /\ pc = "on_recreate"
    /\ Panic("Error on recreate swapchain callback")

\* AppWrapper::about_to_wait: base_app.camera = base_app.camera.update(controls, ..),
\* after the recreation and before the draw, when the controls move the camera
CameraUpdate ==
    /\ pc = "next"
    /\ camera.position = "initial"
    /\ camera' = [camera EXCEPT !.position = "moved", !.direction = "turned"]
    /\ UNCHANGED <<pc, failure, guiVars, libVars, recordVars, storage_images, guiFormat,
                   stats_display_mode, windowRatio, is_swapchain_dirty, windowVars,
                   requested_swapchain_format, format, swapchainVars, command_buffers,
                   ringVars, gpuQueue, image_index, statsVars, resultVars, historyVars,
                   calls>>

\* -------------------------------------------------------------------- draw

\* BaseApp::draw: self.in_flight_frames.next()
DrawNext ==
    /\ pc = "next"
    /\ current_frame' = NextFrame(current_frame)
    /\ lastAcquire' = "none"
    /\ lastPresent' = "none"
    /\ lastDraw' = "none"
    /\ calls' = <<>>
    /\ pc' = "wait"
    /\ UNCHANGED <<failure, guiVars, libVars, recordVars, appVars, is_swapchain_dirty, windowVars, requested_swapchain_format,
                   format, swapchainVars, command_buffers, fence, queryPool, gpuQueue,
                   image_index, statsVars, waited, recreations, callbacks, undisturbed,
                   slotLog>>

\* mutant of DrawWait: the wait returns while the fence is not signaled
DrawWaitReturnsAtOnce ==
    /\ pc = "wait"
    /\ waited' = [waited EXCEPT ![current_frame] = TRUE]
    /\ pc' = "gpu_time"
    /\ UNCHANGED <<failure, guiVars, libVars, recordVars, appVars, calls, is_swapchain_dirty, windowVars, requested_swapchain_format,
                   format, swapchainVars, command_buffers, ringVars, gpuQueue,
                   image_index, statsVars, resultVars, recreations, callbacks, lastDraw,
                   undisturbed, slotLog>>

\* mutant of DrawWait: the wait is on the fence of the slot the ring has just left
DrawWaitPreviousSlot ==
    /\ pc = "wait"
    /\ fence[(current_frame + IN_FLIGHT_FRAMES - 1) % IN_FLIGHT_FRAMES]
    /\ waited' = [waited EXCEPT
                    ![(current_frame + IN_FLIGHT_FRAMES - 1) % IN_FLIGHT_FRAMES] = TRUE]
    /\ pc' = "gpu_time"
    /\ UNCHANGED <<failure, guiVars, libVars, recordVars, appVars, calls, is_swapchain_dirty, windowVars, requested_swapchain_format,
                   format, swapchainVars, command_buffers, ringVars, gpuQueue,
                   image_index, statsVars, resultVars, recreations, callbacks, lastDraw,
                   undisturbed, slotLog>>

\* BaseApp::draw: self.in_flight_frames.fence().wait(None)? returns Ok
DrawWait ==
    /\ pc = "wait"
    /\ fence[current_frame]
    /\ waited' = [waited EXCEPT ![current_frame] = TRUE]
    /\ pc' = "gpu_time"
    /\ UNCHANGED <<failure, guiVars, libVars, recordVars, appVars, calls, is_swapchain_dirty, windowVars, requested_swapchain_format,
                   format, swapchainVars, command_buffers, ringVars, gpuQueue,
                   image_index, statsVars, resultVars, recreations, callbacks, lastDraw,
                   undisturbed, slotLog>>

\* BaseApp::draw: the GPU time of the slot, set_gpu_time_time and tick. The wait for
\* the query results returns once they are available; the two timestamps the GPU
\* wrote are any two values
DrawGpuTime ==
    /\ pc = "gpu_time"
    /\ IF total_frame_count >= IN_FLIGHT_FRAMES
       THEN /\ queryPool[current_frame]
            /\ \E t0 \in Timestamps, t1 \in Timestamps :
                 gpu_time' = GpuFrameTime(<<t0, t1>>)
       ELSE gpu_time' = 0
    /\ total_frame_count' = total_frame_count + 1
    /\ pc' = "acquire"
    /\ UNCHANGED <<failure, guiVars, libVars, recordVars, appVars, calls, is_swapchain_dirty, windowVars, requested_swapchain_format,
                   format, swapchainVars, command_buffers, ringVars, gpuQueue,
                   image_index, resultVars, historyVars>>

\* BaseApp::draw: the query pool of the slot was never reset nor written, so the state
\* of its queries is undefined: the call may never return (no step), or return any
\* two values
DrawGpuTimeUndefined ==
    /\ pc = "gpu_time"
    /\ total_frame_count >= IN_FLIGHT_FRAMES
    /\ ~queryPool[current_frame]
    /\ \E t0 \in Timestamps, t1 \in Timestamps :
         gpu_time' = GpuFrameTime(<<t0, t1>>)
    /\ total_frame_count' = total_frame_count + 1
    /\ pc' = "acquire"
    /\ UNCHANGED <<failure, guiVars, libVars, recordVars, appVars, calls, is_swapchain_dirty, windowVars, requested_swapchain_format,
                   format, swapchainVars, command_buffers, ringVars, gpuQueue,
                   image_index, resultVars, historyVars>>

\* BaseApp::draw: acquire_next_image is called with the timeout u64::MAX: while the
\* presentation engine has no image to hand out, the call does not return
DrawAcquireWaits ==
    /\ pc = "acquire"
    /\ pc' = "acquire_blocked"
    /\ UNCHANGED <<failure, guiVars, libVars, recordVars, appVars, calls, is_swapchain_dirty, windowVars, requested_swapchain_format,
                   format, swapchainVars, command_buffers, ringVars, gpuQueue,
                   image_index, statsVars, resultVars, historyVars>>

\* BaseApp::draw: acquire_next_image returns Ok(AcquiredImage { index, is_suboptimal })
DrawAcquireOk ==
    /\ pc \in AcquirePcs
    /\ \E i \in AcquirableImages : image_index' = i
    /\ \E is_suboptimal \in BOOLEAN :
         /\ lastAcquire' = IF is_suboptimal THEN "suboptimal" ELSE "success"
         /\ undisturbed' = (undisturbed /\ ~is_suboptimal)
         /\ slotLog' = IF is_suboptimal THEN <<>> ELSE slotLog
    /\ calls' = Append(calls, AcquireCall(current_frame))
    /\ pc' = "reset"
    /\ UNCHANGED <<failure, guiVars, libVars, recordVars, appVars, is_swapchain_dirty, windowVars, requested_swapchain_format,
                   format, swapchainVars, command_buffers, ringVars, gpuQueue, statsVars,
                   lastPresent, waited, recreations, callbacks, lastDraw>>

\* mutant of DrawAcquireOutOfDate: the stale report is ignored and the frame goes on
DrawAcquireOutOfDateGoesOn ==
    /\ pc \in AcquirePcs
    /\ \E i \in AcquirableImages : image_index' = i
    /\ lastAcquire' = "out_of_date"
    /\ undisturbed' = FALSE
    /\ slotLog' = <<>>
    /\ calls' = Append(calls, AcquireCall(current_frame))
    /\ pc' = "reset"
    /\ UNCHANGED <<failure, guiVars, libVars, recordVars, appVars, is_swapchain_dirty, windowVars, requested_swapchain_format,
                   format, swapchainVars, command_buffers, ringVars, gpuQueue, statsVars,
                   lastPresent, waited, recreations, callbacks, lastDraw>>

\* BaseApp::draw: acquire_next_image returns Err(ERROR_OUT_OF_DATE_KHR)
DrawAcquireOutOfDate ==
    /\ pc \in AcquirePcs
    /\ lastAcquire' = "out_of_date"
    /\ undisturbed' = FALSE
    /\ slotLog' = <<>>
    /\ calls' = Append(calls, AcquireCall(current_frame))
    /\ DrawReturns(TRUE)
    /\ UNCHANGED <<failure, guiVars, libVars, recordVars, appVars, windowVars, requested_swapchain_format, format,
                   swapchainVars, command_buffers, ringVars, gpuQueue, statsVars,
                   lastPresent, waited>>

\* BaseApp::draw: acquire_next_image returns any other Err
DrawAcquireError ==
    /\ pc \in AcquirePcs
    /\ pc' = "panicked"
    /\ failure' = "Error while acquiring next image"
    /\ \E r \in OtherResults : lastAcquire' = r
    /\ lastPresent' = "none"
    /\ UNCHANGED lastAppOp
    /\ WrapperDropped

\* BaseApp::draw: self.in_flight_frames.fence().reset()?
DrawResetFence ==
    /\ pc = "reset"
    /\ fence' = [fence EXCEPT ![current_frame] = FALSE]
    /\ pc' = "update"
    /\ UNCHANGED <<failure, guiVars, libVars, recordVars, appVars, calls, is_swapchain_dirty, windowVars, requested_swapchain_format,
                   format, swapchainVars, command_buffers, current_frame, queryPool,
                   gpuQueue, image_index, statsVars, resultVars, historyVars>>

\* mutant of DrawGuiTextures: the textures to free are stored in the slot of the next
\* frame
DrawGuiTexturesInNextSlot ==
    /\ pc = "reset"
    /\ fence' = [fence EXCEPT ![current_frame] = FALSE]
    /\ freeCalls' = [i \in TextureIds |->
                       IF i \in gui_textures_to_free[current_frame]
                       THEN freeCalls[i] + 1 ELSE freeCalls[i]]
    /\ \E free \in SUBSET {i \in TextureIds : reportSlot[i] = NoSlot} :
         /\ gui_textures_to_free' =
              IF free # {}
              THEN [gui_textures_to_free EXCEPT ![NextFrame(current_frame)] = free]
              ELSE gui_textures_to_free
         /\ reportSlot' = [i \in TextureIds |->
                             IF i \in free THEN current_frame ELSE reportSlot[i]]
    /\ pc' = "update"
    /\ UNCHANGED <<failure, libVars, recordVars, appVars, calls, is_swapchain_dirty, windowVars,
                   requested_swapchain_format, format, swapchainVars, command_buffers,
                   current_frame, queryPool, gpuQueue, image_index, statsVars,
                   resultVars, historyVars>>

\* BaseApp::draw from fence().reset() to the GUI output, in a frame in which the slot
\* holds textures to free or egui reports textures as freed (DrawResetFence is the
\* same step with no texture): free_textures is called with the slot's list when it is
\* not empty; gui_context.run returns textures_delta, whose free list holds textures
\* egui has not reported before; when that list is not empty it replaces the slot's
\* list
DrawGuiTextures ==
    /\ pc = "reset"
    /\ fence' = [fence EXCEPT ![current_frame] = FALSE]
    /\ freeCalls' = [i \in TextureIds |->
                       IF i \in gui_textures_to_free[current_frame]
                       THEN freeCalls[i] + 1 ELSE freeCalls[i]]
    /\ \E free \in SUBSET {i \in TextureIds : reportSlot[i] = NoSlot} :
         /\ gui_textures_to_free' =
              IF free # {}
              THEN [gui_textures_to_free EXCEPT ![current_frame] = free]
              ELSE gui_textures_to_free
         /\ reportSlot' = [i \in TextureIds |->
                             IF i \in free THEN current_frame ELSE reportSlot[i]]
    /\ pc' = "update"
    /\ UNCHANGED <<failure, libVars, recordVars, appVars, calls, is_swapchain_dirty, windowVars,
                   requested_swapchain_format, format, swapchainVars, command_buffers,
                   current_frame, queryPool, gpuQueue, image_index, statsVars,
                   resultVars, historyVars>>

\* BaseApp::draw: base_app.update(self, gui, image_index, frame_time)? returns Ok;
\* the application may call request_swapchain_format_change any number of times
DrawUpdate ==
    /\ pc = "update"
    /\ \E reqs \in RequestSeqs :
         requested_swapchain_format' = ApplyRequests(requested_swapchain_format, reqs)
    /\ pc' = "record"
    /\ UNCHANGED <<failure, guiVars, libVars, recordVars, appVars, calls, is_swapchain_dirty, windowVars, format, swapchainVars,
                   command_buffers, ringVars, gpuQueue, image_index, statsVars,
                   resultVars, historyVars>>

\* BaseApp::record_command_buffer: command_buffers[image_index] is reset and recorded
\* with the timestamp writes into the current slot's query pool. Resetting a command
\* buffer that is pending is undefined: the frame goes on here, or a later call fails
\* (DrawFails)
DrawRecord ==
    /\ pc = "record"
    /\ image_index < command_buffers
    /\ calls' = Append(calls, RecordCall)
    /\ pc' = "submit"
    /\ UNCHANGED <<failure, guiVars, libVars, recordVars, appVars, is_swapchain_dirty, windowVars, requested_swapchain_format,
                   format, swapchainVars, command_buffers, ringVars, gpuQueue,
                   image_index, statsVars, resultVars, historyVars>>

\* BaseApp::record_command_buffer: command_buffers[image_index] is out of bounds
DrawRecordOutOfBounds ==
    /\ pc = "record"
    /\ image_index >= command_buffers
    /\ Panic("index out of bounds")

\* ------------------------------------------------- record_command_buffer
\* the steps of BaseApp::record_command_buffer, which DrawRecord takes as one

\* record_command_buffer: reset, begin, reset of the slot's timestamp queries and the
\* first timestamp
RecordBegin ==
    /\ pc = "record"
    /\ rpc = "none"
    /\ image_index < command_buffers
    /\ commands' = <<Cmd("reset"), Cmd("begin"), Cmd("reset_all_timestamp_queries"),
                     Cmd("write_timestamp")>>
    /\ rpc' = "main"
    /\ UNCHANGED <<pc, failure, guiVars, libVars, appVars, raytracing_enabled, lastAppOp, calls, is_swapchain_dirty,
                   windowVars, requested_swapchain_format, format, swapchainVars,
                   command_buffers, ringVars, gpuQueue, image_index, statsVars,
                   resultVars, historyVars>>

\* record_command_buffer: base_app.record_raytracing_commands(..)? returns Ok, when
\* ray tracing is enabled
RecordRaytracingCommands ==
    /\ pc = "record"
    /\ rpc = "main"
    /\ raytracing_enabled
    /\ \E op \in AppOps :
         /\ AppCall(op, raytracing_enabled).panic = "none"
         /\ lastAppOp' = op
         /\ commands' = commands \o <<Cmd("record_raytracing_commands"),
                                      Cmd(AppCall(op, raytracing_enabled).device)>>
    /\ rpc' = "copy"
    /\ UNCHANGED <<pc, failure, guiVars, libVars, appVars, raytracing_enabled, calls, is_swapchain_dirty,
                   windowVars, requested_swapchain_format, format, swapchainVars,
                   command_buffers, ringVars, gpuQueue, image_index, statsVars,
                   resultVars, historyVars>>

\* record_command_buffer: the copy of the ray tracing result into the swapchain image,
\* between two pairs of barriers
RecordCopyToSwapchain ==
    /\ pc = "record"
    /\ rpc = "copy"
    /\ commands' = commands \o
         <<Barrier("swapchain", "UNDEFINED", "TRANSFER_DST_OPTIMAL"),
           Barrier("storage", "GENERAL", "TRANSFER_SRC_OPTIMAL"),
           Cmd("copy_image"),
           Barrier("swapchain", "TRANSFER_DST_OPTIMAL", "COLOR_ATTACHMENT_OPTIMAL"),
           Barrier("storage", "TRANSFER_SRC_OPTIMAL", "GENERAL")>>
    /\ rpc' = "raster"
    /\ UNCHANGED <<pc, failure, guiVars, libVars, appVars, raytracing_enabled, lastAppOp, calls, is_swapchain_dirty,
                   windowVars, requested_swapchain_format, format, swapchainVars,
                   command_buffers, ringVars, gpuQueue, image_index, statsVars,
                   resultVars, historyVars>>

\* record_command_buffer: the barrier of the swapchain image when ray tracing is not
\* enabled
RecordRasterTransition ==
    /\ pc = "record"
    /\ rpc = "main"
    /\ ~raytracing_enabled
    /\ commands' = Append(commands,
                          Barrier("swapchain", "UNDEFINED", "COLOR_ATTACHMENT_OPTIMAL"))
    /\ rpc' = "raster"
    /\ UNCHANGED <<pc, failure, guiVars, libVars, appVars, raytracing_enabled, lastAppOp, calls, is_swapchain_dirty,
                   windowVars, requested_swapchain_format, format, swapchainVars,
                   command_buffers, ringVars, gpuQueue, image_index, statsVars,
                   resultVars, historyVars>>

\* record_command_buffer: base_app.record_raster_commands(self, image_index)? returns
\* Ok
RecordRasterCommands ==
    /\ pc = "record"
    /\ rpc = "raster"
    /\ \E op \in AppOps :
         /\ AppCall(op, raytracing_enabled).panic = "none"
         /\ lastAppOp' = op
         /\ commands' = commands \o <<Cmd("record_raster_commands"),
                                      Cmd(AppCall(op, raytracing_enabled).device)>>
    /\ rpc' = "gui"
    /\ UNCHANGED <<pc, failure, guiVars, libVars, appVars, raytracing_enabled, calls, is_swapchain_dirty,
                   windowVars, requested_swapchain_format, format, swapchainVars,
                   command_buffers, ringVars, gpuQueue, image_index, statsVars,
                   resultVars, historyVars>>

\* record_command_buffer: a call of an App callback panics: the panic unwinds through
\* run with the commands recorded so far
RecordCallbackPanics ==
    /\ pc = "record"
    /\ (rpc = "main" /\ raytracing_enabled) \/ rpc = "raster"
    /\ \E op \in AppOps :
         /\ AppCall(op, raytracing_enabled).panic # "none"
         /\ lastAppOp' = op
         /\ failure' = AppCall(op, raytracing_enabled).panic
    /\ pc' = "panicked"
    /\ lastAcquire' = "none"
    /\ lastPresent' = "none"
    /\ WrapperDropped

\* record_command_buffer: the GUI pass: begin_rendering, renderer.cmd_draw,
\* end_rendering
RecordGui ==
    /\ pc = "record"
    /\ rpc = "gui"
    /\ commands' = commands \o
         <<Cmd("begin_rendering"), Cmd("gui_cmd_draw"), Cmd("end_rendering")>>
    /\ rpc' = "finish"
    /\ UNCHANGED <<pc, failure, guiVars, libVars, appVars, raytracing_enabled, lastAppOp, calls, is_swapchain_dirty,
                   windowVars, requested_swapchain_format, format, swapchainVars,
                   command_buffers, ringVars, gpuQueue, image_index, statsVars,
                   resultVars, historyVars>>

\* mutant of RecordFinish: the barrier to PRESENT_SRC_KHR is not recorded
RecordFinishWithoutBarrier ==
    /\ pc = "record"
    /\ rpc = "finish"
    /\ commands' = commands \o <<Cmd("write_timestamp"), Cmd("end")>>
    /\ rpc' = "none"
    /\ calls' = Append(calls, RecordCall)
    /\ pc' = "submit"
    /\ UNCHANGED <<failure, guiVars, libVars, appVars, raytracing_enabled, lastAppOp, is_swapchain_dirty,
                   windowVars, requested_swapchain_format, format, swapchainVars,
                   command_buffers, ringVars, gpuQueue, image_index, statsVars,
                   resultVars, historyVars>>

\* record_command_buffer: the barrier of the swapchain image to PRESENT_SRC_KHR, the
\* second timestamp and end
RecordFinish ==
    /\ pc = "record"
    /\ rpc = "finish"
    /\ commands' = commands \o
         <<Barrier("swapchain", "COLOR_ATTACHMENT_OPTIMAL", "PRESENT_SRC_KHR"),
           Cmd("write_timestamp"), Cmd("end")>>
    /\ rpc' = "none"
    /\ calls' = Append(calls, RecordCall)
    /\ pc' = "submit"
    /\ UNCHANGED <<failure, guiVars, libVars, appVars, raytracing_enabled, lastAppOp, is_swapchain_dirty,
                   windowVars, requested_swapchain_format, format, swapchainVars,
                   command_buffers, ringVars, gpuQueue, image_index, statsVars,
                   resultVars, historyVars>>

\* mutant of DrawSubmit: the submission signals the render-finished semaphore of the
\* other slot
DrawSubmitSignalsOtherSlot ==
    /\ pc = "submit"
    /\ gpuQueue' = Append(gpuQueue, [slot |-> current_frame, cb |-> image_index])
    /\ waited' = [waited EXCEPT ![current_frame] = FALSE]
    /\ calls' = Append(calls, Call("submit", image_available_semaphore(current_frame),
                                   render_finished_semaphore(NextFrame(current_frame)),
                                   current_frame))
    /\ commands' = <<>>
    /\ lastAppOp' = "none"
    /\ pc' = "present"
    /\ UNCHANGED <<failure, guiVars, libVars, appVars, raytracing_enabled, rpc, is_swapchain_dirty, windowVars, requested_swapchain_format,
                   format, swapchainVars, command_buffers, ringVars, image_index,
                   statsVars, resultVars, recreations, callbacks, lastDraw, undisturbed,
                   slotLog>>

\* BaseApp::draw: graphics_queue.submit(command_buffer, .., self.in_flight_frames.fence())
DrawSubmit ==
    /\ pc = "submit"
    /\ gpuQueue' = Append(gpuQueue, [slot |-> current_frame, cb |-> image_index])
    /\ waited' = [waited EXCEPT ![current_frame] = FALSE]
    /\ calls' = Append(calls, SubmitCall(current_frame))
    /\ commands' = <<>>
    /\ lastAppOp' = "none"
    /\ pc' = "present"
    /\ UNCHANGED <<failure, guiVars, libVars, appVars, raytracing_enabled, rpc, is_swapchain_dirty, windowVars, requested_swapchain_format,
                   format, swapchainVars, command_buffers, ringVars, image_index,
                   statsVars, resultVars, recreations, callbacks, lastDraw, undisturbed,
                   slotLog>>

\* BaseApp::draw: queue_present returns Ok(false)
DrawPresentOk ==
    /\ pc = "present"
    /\ lastPresent' = "success"
    /\ slotLog' = IF undisturbed THEN Append(slotLog, current_frame) ELSE <<>>
    /\ calls' = Append(calls, PresentCall(current_frame))
    /\ DrawReturns(FALSE)
    /\ UNCHANGED <<failure, guiVars, libVars, recordVars, appVars, windowVars, requested_swapchain_format, format,
                   swapchainVars, command_buffers, ringVars, gpuQueue, statsVars,
                   lastAcquire, waited, undisturbed>>

\* BaseApp::draw: queue_present returns Ok(true) (suboptimal) or
\* Err(ERROR_OUT_OF_DATE_KHR)
DrawPresentStale ==
    /\ pc = "present"
    /\ \E r \in StaleReports : lastPresent' = r
    /\ undisturbed' = FALSE
    /\ slotLog' = <<>>
    /\ calls' = Append(calls, PresentCall(current_frame))
    /\ DrawReturns(TRUE)
    /\ UNCHANGED <<failure, guiVars, libVars, recordVars, appVars, windowVars, requested_swapchain_format, format,
                   swapchainVars, command_buffers, ringVars, gpuQueue, statsVars,
                   lastAcquire, waited>>

\* BaseApp::draw: queue_present returns any other Err
DrawPresentError ==
    /\ pc = "present"
    /\ pc' = "panicked"
    /\ failure' = "Failed to present queue"
    /\ \E r \in OtherResults : lastPresent' = r
    /\ lastAcquire' = "none"
    /\ UNCHANGED lastAppOp
    /\ WrapperDropped

\* mutant of DrawFails: the error is swallowed and draw returns to the event loop
DrawFailsReturnsToLoop ==
    /\ pc \in {"wait", "gpu_time", "reset", "update", "record", "submit"}
    /\ DrawReturns(FALSE)
    /\ UNCHANGED <<failure, guiVars, libVars, recordVars, appVars, calls, windowVars, requested_swapchain_format, format,
                   swapchainVars, command_buffers, ringVars, gpuQueue, statsVars,
                   resultVars, waited, undisturbed, slotLog>>

\* a Vulkan call of draw followed by `?` returns Err: .expect("Failed to tick")
DrawFails ==
    /\ pc \in {"wait", "gpu_time", "reset", "update", "record", "submit"}
    /\ Panic("Failed to tick")

\* --------------------------------------------------------------------- GPU

\* the GPU completes the oldest pending submission: the two timestamps are written
\* into the query pool of the slot the command buffer was recorded in and the
\* submission's fence is signaled
GpuComplete ==
    /\ pc \notin {"panicked", "destroyed"}
    /\ gpuQueue # <<>>
    /\ LET done == Head(gpuQueue) IN
         /\ fence' = [fence EXCEPT ![done.slot] = TRUE]
         /\ queryPool' = [queryPool EXCEPT ![done.slot] = TRUE]
    /\ gpuQueue' = Tail(gpuQueue)
    /\ UNCHANGED <<pc, failure, guiVars, libVars, recordVars, appVars, calls, is_swapchain_dirty, windowVars,
                   requested_swapchain_format, format, swapchainVars, command_buffers,
                   current_frame, image_index, statsVars, resultVars, historyVars>>

Next ==
    \/ WindowResized
    \/ CloseRequested
    \/ Exiting
    \/ ExitingFails
    \/ AboutToWait
    \/ RecreateWaitIdle
    \/ RecreateUpdate
    \/ RecreateFails
    \/ OnRecreateSwapchain
    \/ OnRecreateSwapchainFails
    \/ DrawNext
    \/ DrawWait
    \/ DrawGpuTime
    \/ DrawGpuTimeUndefined
    \/ DrawAcquireWaits
    \/ DrawAcquireOk
    \/ DrawAcquireOutOfDate
    \/ DrawAcquireError
    \/ DrawResetFence
    \/ DrawUpdate
    \/ DrawRecord
    \/ DrawRecordOutOfBounds
    \/ DrawSubmit
    \/ DrawPresentOk
    \/ DrawPresentStale
    \/ DrawPresentError
    \/ DrawFails
    \/ GpuComplete

Spec == Init /\ [][Next]_vars

\* the frame loop after construction, with or without ray tracing
InitRecordApp ==
    /\ pc = "idle"
    /\ failure = "none"
    /\ is_swapchain_dirty = FALSE
    /\ windowZero = FALSE
    /\ requested_swapchain_format = NoFormat
    /\ format = NoFormat
    /\ imageCount \in ImageCounts
    /\ swapchainFormat = NoFormat
    /\ command_buffers = imageCount
    /\ current_frame = 0
    /\ fence = [s \in Slots |-> TRUE]
    /\ queryPool = [s \in Slots |-> FALSE]
    /\ gpuQueue = <<>>
    /\ image_index = NoImage
    /\ total_frame_count = 0
    /\ gpu_time = 0
    /\ lastAcquire = "none"
    /\ lastPresent = "none"
    /\ waited = [s \in Slots |-> FALSE]
    /\ recreations = 0
    /\ callbacks = 0
    /\ lastDraw = "none"
    /\ undisturbed = TRUE
    /\ slotLog = <<>>
    /\ calls = <<>>
    /\ raytracing_enabled \in BOOLEAN
    /\ rpc = "none"
    /\ commands = <<>>
    /\ lastAppOp = "none"
    /\ storage_images = StorageImagesFor(raytracing_enabled, imageCount)
    /\ guiFormat = NoFormat
    /\ windowRatio = "4:3"
    /\ camera = NewCamera(windowRatio)
    /\ stats_display_mode = "Basic"
    /\ gui_textures_to_free = [s \in Slots |-> {}]
    /\ freeCalls = [i \in TextureIds |-> 0]
    /\ reportSlot = [i \in TextureIds |-> NoSlot]

\* the application is configured with or without ray tracing
\* (AppConfig::enable_raytracing)
InitRecord == InitRecordApp /\ LibIdle

\* the frames of a run with no resize, in which record_command_buffer is followed
\* step by step
NextRecord ==
    \/ AboutToWait
    \/ DrawNext
    \/ DrawWait
    \/ DrawGpuTime
    \/ DrawAcquireOk
    \/ DrawResetFence
    \/ DrawUpdate
    \/ RecordBegin
    \/ RecordRaytracingCommands
    \/ RecordCopyToSwapchain
    \/ RecordRasterTransition
    \/ RecordRasterCommands
    \/ RecordCallbackPanics
    \/ RecordGui
    \/ RecordFinish
    \/ DrawSubmit
    \/ DrawPresentOk
    \/ DrawFails
    \/ GpuComplete

RecordSpec == InitRecord /\ [][NextRecord]_vars

\* the frames and the recreations of a run with window and key events and no stale
\* report of the swapchain
NextRecreate ==
    \/ WindowReshaped
    \/ ToggleStats
    \/ (total_frame_count < MaxRecreateFrames /\ AboutToWait)
    \/ RecreateWaitIdle
    \/ RecreateUpdate
    \/ RecreateFails
    \/ OnRecreateSwapchain
    \/ CameraUpdate
    \/ DrawNext
    \/ DrawWait
    \/ DrawGpuTime
    \/ DrawAcquireOk
    \/ DrawResetFence
    \/ DrawUpdate
    \/ DrawRecord
    \/ DrawSubmit
    \/ DrawPresentOk
    \/ GpuComplete

RecreateSpec == InitRecord /\ [][NextRecreate]_vars

\* the whole program, with the number of frames capped at MaxLiveFrames
NextLive ==
    \/ WindowResized
    \/ CloseRequested
    \/ Exiting
    \/ ExitingFails
    \/ (total_frame_count < MaxLiveFrames /\ AboutToWait)
    \/ RecreateWaitIdle
    \/ RecreateUpdate
    \/ RecreateFails
    \/ OnRecreateSwapchain
    \/ OnRecreateSwapchainFails
    \/ DrawNext
    \/ DrawWait
    \/ DrawGpuTime
    \/ DrawGpuTimeUndefined
    \/ DrawAcquireWaits
    \/ DrawAcquireOk
    \/ DrawAcquireOutOfDate
    \/ DrawAcquireError
    \/ DrawResetFence
    \/ DrawUpdate
    \/ DrawRecord
    \/ DrawRecordOutOfBounds
    \/ DrawSubmit
    \/ DrawPresentOk
    \/ DrawPresentStale
    \/ DrawPresentError
    \/ DrawFails
    \/ GpuComplete

\* the GPU eventually completes every submitted command buffer, and a fence wait
\* returns once its fence is signaled
LiveSpec == Init /\ [][NextLive]_vars /\ WF_vars(GpuComplete) /\ WF_vars(DrawWait)

\* the frames and the recreations of a run in which the window changes its size (to
\* zero, to another ratio), the application requests formats and the swapchain
\* reports itself stale
NextResize ==
    \/ WindowResized
    \/ WindowReshaped
    \/ (total_frame_count < MaxResizeFrames /\ AboutToWait)
    \/ RecreateWaitIdle
    \/ RecreateUpdate
    \/ OnRecreateSwapchain
    \/ DrawNext
    \/ DrawWait
    \/ DrawGpuTime
    \/ DrawAcquireOk
    \/ DrawAcquireOutOfDate
    \/ DrawResetFence
    \/ DrawUpdate
    \/ DrawRecord
    \/ DrawRecordOutOfBounds
    \/ DrawSubmit
    \/ DrawPresentOk
    \/ DrawPresentStale
    \/ GpuComplete

ResizeSpec == Init /\ [][NextResize]_vars

\* the frames of a run in which egui frees textures, some frames end at an
\* out-of-date acquire and the swapchain is recreated; the application requests no
\* format and the GPU times measured are 0
NextGui ==
    \/ (total_frame_count < MaxGuiFrames /\ AboutToWait)
    \/ RecreateWaitIdle
    \/ RecreateUpdate
    \/ OnRecreateSwapchain
    \/ DrawNext
    \/ DrawWait
    \/ (gpu_time' = 0 /\ DrawGpuTime)
    \/ (gpu_time' = 0 /\ DrawGpuTimeUndefined)
    \/ DrawAcquireOk
    \/ DrawAcquireOutOfDate
    \/ DrawGuiTextures
    \/ (requested_swapchain_format' = NoFormat /\ DrawUpdate)
    \/ DrawRecord
    \/ DrawRecordOutOfBounds
    \/ DrawSubmit
    \/ DrawPresentOk
    \/ GpuComplete

GuiSpec == Init /\ [][NextGui]_vars

\* the selection of the physical device, for every list of candidate devices
InitSelect ==
    /\ InitApp
    /\ imageCount = MinImages
    /\ devices \in DeviceLists
    /\ selected = NotSelected
    /\ dropQueue = <<>>
    /\ destroyed = <<>>
    /\ alignArgs = NoAlignArgs
    /\ alignResult = NoAlignResult
    /\ frame_time_ms_log = [values |-> <<>>, max_size |-> 1]
    /\ pushed = <<>>

NextSelect == SelectDevice

SelectSpec == InitSelect /\ [][NextSelect]_vars

\* the teardown of an application that is exiting, for every order of the fields of
\* the application object, with and without ray tracing
InitDrop ==
    /\ InitRecordApp
    /\ devices = <<>>
    /\ selected = NotSelected
    /\ dropQueue \in {WrapperFields(a, raytracing_enabled, imageCount) : a \in AppFieldOrders}
    /\ destroyed = <<>>
    /\ alignArgs = NoAlignArgs
    /\ alignResult = NoAlignResult
    /\ frame_time_ms_log = [values |-> <<>>, max_size |-> 1]
    /\ pushed = <<>>

NextDrop ==
    \/ CloseRequested
    \/ Exiting
    \/ ExitingFails
    \/ DropField

DropSpec == InitDrop /\ [][NextDrop]_vars

\* the calls of compute_aligned_size and of compute_aligned_size_of
InitAlign ==
    /\ InitApp
    /\ imageCount = MinImages
    /\ devices = <<>>
    /\ selected = NotSelected
    /\ dropQueue = <<>>
    /\ destroyed = <<>>
    /\ alignArgs \in AlignCalls
    /\ alignResult = NoAlignResult
    /\ frame_time_ms_log = [values |-> <<>>, max_size |-> 1]
    /\ pushed = <<>>

NextAlign ==
    \/ ComputeAlignedSize
    \/ ComputeAlignedSizeOf
    \/ ComputeAlignedSizeAgain

AlignSpec == InitAlign /\ [][NextAlign]_vars

\* the pushes to a frame-time log, for every capacity from 1 to MaxLogSize
\* (Queue::new(FrameStats::MAX_LOG_SIZE))
InitQueue ==
    /\ InitApp
    /\ imageCount = MinImages
    /\ devices = <<>>
    /\ selected = NotSelected
    /\ dropQueue = <<>>
    /\ destroyed = <<>>
    /\ alignArgs = NoAlignArgs
    /\ alignResult = NoAlignResult
    /\ \E max_size \in 1..MaxLogSize :
          frame_time_ms_log = [values |-> <<>>, max_size |-> max_size]
    /\ pushed = <<>>

NextQueue == TickPush

QueueSpec == InitQueue /\ [][NextQueue]_vars

\* ------------------------------------------------------------------ claims

DrawPcs == {"next", "wait", "gpu_time", "acquire", "acquire_blocked", "reset",
            "update", "record", "submit", "present"}

\* C1: draw resets the fence of a slot, and submits with the fence of a slot, only
\* when fence().wait has returned for that same slot since the slot's last submission
\* (and so while no submission that signals this fence is pending).
C1_ResetOnlyAfterWait ==
    [][/\ (pc = "reset" /\ pc' = "update") =>
            /\ waited[current_frame]
            /\ \A k \in 1..Len(gpuQueue) : gpuQueue[k].slot # current_frame
       /\ (pc = "submit" /\ pc' = "present") =>
            /\ waited[current_frame]
            /\ \A k \in 1..Len(gpuQueue) : gpuQueue[k].slot # current_frame]_vars

\* C1 witness: the fence of a slot that an earlier frame submitted on has been reset
\* again, in a run where a frame ended Dirty.
C1_Witness ==
    /\ pc = "update"
    /\ queryPool[current_frame]
    /\ ~fence[current_frame]
    /\ ~undisturbed

\* C2: command_buffers[image_index] is never reset and re-recorded while an earlier
\* submission of that command buffer is still pending on the GPU.
C2_NoResetOfPendingCommandBuffer ==
    [][(pc = "record" /\ pc' = "submit") => ~CbPending(image_index)]_vars

\* C3: after acquire_next_image reports ERROR_OUT_OF_DATE_KHR the frame is over:
\* draw has returned true (the swapchain is marked dirty) with the slot's fence still
\* signaled, nothing submitted since the wait and nothing presented, and the next
\* draw (the next acquire) starts only after a recreation has run.
C3_OutOfDateAcquireEndsFrame ==
    lastAcquire = "out_of_date" =>
        /\ pc \in {"idle", "recreate_wait", "recreate_update", "on_recreate", "next",
                   "panicked", "exiting", "destroyed"}
        /\ fence[current_frame]
        /\ waited[current_frame]
        /\ lastPresent = "none"
        /\ lastDraw = "dirty"
        /\ pc = "idle" => is_swapchain_dirty
        /\ pc = "next" => recreations = 1

\* C3 witness: the draw after a frame that ended Dirty at acquire is about to start.
C3_Witness ==
    /\ pc = "next"
    /\ lastAcquire = "out_of_date"
    /\ recreations = 1

\* C4: when draw has returned after acquire_next_image or queue_present reported the
\* swapchain out of date or suboptimal, the swapchain is marked dirty; and no such
\* report ends the process.
C4_EveryStaleReportMarksDirty ==
    /\ (pc = "idle" /\ (lastAcquire \in StaleReports \/ lastPresent \in StaleReports))
          => is_swapchain_dirty
    /\ pc = "panicked" =>
          ~(failure = "Error while acquiring next image" /\ lastAcquire \in StaleReports)
    /\ pc = "panicked" =>
          ~(failure = "Failed to present queue" /\ lastPresent \in StaleReports)

\* C5: when recreate_swapchain replaces the swapchain (Swapchain::update), and until
\* the callback has run, no submitted GPU work is pending.
C5_NoPendingWorkAtUpdate ==
    pc \in {"recreate_update", "on_recreate"} => gpuQueue = <<>>

\* C5 witness: the swapchain was replaced for a requested format after frames had
\* been submitted.
C5_Witness ==
    /\ pc = "on_recreate"
    /\ format # NoFormat
    /\ \E s \in Slots : queryPool[s]

\* C6: on_recreate_swapchain runs once after each recreation, before the draw of the
\* same about_to_wait, and never without a recreation; a frame that ended Dirty is
\* followed by exactly one recreation and one callback before the next draw.
C6_OneCallbackPerRecreation ==
    /\ callbacks <= recreations
    /\ recreations <= 1
    /\ pc \in DrawPcs => callbacks = recreations
    /\ pc = "on_recreate" => (recreations = 1 /\ callbacks = 0)
    /\ (pc = "next" /\ lastDraw = "dirty") => (recreations = 1 /\ callbacks = 1)

\* C6 witness: a draw is about to start after a frame that ended Dirty.
C6_Witness ==
    /\ pc = "next"
    /\ lastDraw = "dirty"
    /\ callbacks = 1

\* C7: the frame boundary that consumes the pending format request starts a
\* recreation with the requested format (the format of the last call).
C7_RequestsConsumedByOneRecreation ==
    [][(/\ requested_swapchain_format # NoFormat
        /\ requested_swapchain_format' = NoFormat
        /\ pc' \notin {"panicked", "destroyed"})
          => (pc' = "recreate_wait" /\ format' = requested_swapchain_format)]_vars

\* the values gpu_frame_time_ms can return for a measured frame
MeasuredGpuTimes == {GpuFrameTime(<<t0, t1>>) : t0 \in Timestamps, t1 \in Timestamps}

\* C8: in the first IN_FLIGHT_FRAMES frames the GPU time the statistics hold is not a
\* value a measurement can produce.
C8_NoDataIsNotADuration ==
    (pc = "acquire" /\ total_frame_count <= IN_FLIGHT_FRAMES)
        => gpu_time \notin MeasuredGpuTimes

\* C9: draw waits for the timestamp results of the current slot only when a submission
\* on that slot has written them.
C9_QueryOnlyWrittenPools ==
    (pc = "gpu_time" /\ total_frame_count >= IN_FLIGHT_FRAMES)
        => queryPool[current_frame]

\* C10 as stated: five frames with no resize and no stale report use the slots
\* 0,1,0,1,0.
C10_SlotsStartAtZero ==
    (undisturbed /\ pc = "idle" /\ total_frame_count = 5)
        => slotLog = <<0, 1, 0, 1, 0>>

\* C10 amended: with no resize and no stale report every frame drawn completes its
\* acquire/submit/present cycle, and the k-th frame uses slot k mod IN_FLIGHT_FRAMES:
\* the slots of five frames are 1,0,1,0,1.
C10_SlotsStartAtOne ==
    (undisturbed /\ pc = "idle") =>
        /\ Len(slotLog) = total_frame_count
        /\ \A k \in 1..Len(slotLog) : slotLog[k] = k % IN_FLIGHT_FRAMES
        /\ total_frame_count = 5 => slotLog = <<1, 0, 1, 0, 1>>

\* C10 witness: five undisturbed frames have completed.
C10_Witness ==
    /\ undisturbed
    /\ pc = "idle"
    /\ slotLog = <<1, 0, 1, 0, 1>>

\* the calls a complete frame on slot s makes, in order
FrameCalls(s) == <<AcquireCall(s), RecordCall, SubmitCall(s), PresentCall(s)>>

\* C11: the calls of one draw are acquire, record, submit, present in this order and
\* all name the current slot: the submission waits on the image-available semaphore
\* the acquire was asked to signal and signals the slot's render-finished semaphore and
\* fence, the present waits on that render-finished semaphore, and the slot index does
\* not change from acquire to present.
C11_OneSlotFromAcquireToPresent ==
    /\ Len(calls) <= Len(FrameCalls(current_frame))
    /\ \A k \in 1..Len(calls) : calls[k] = FrameCalls(current_frame)[k]
    /\ pc \in {"reset", "update", "record"} => Len(calls) = 1
    /\ pc = "submit" => Len(calls) = 2
    /\ pc = "present" => Len(calls) = 3
    /\ Len(calls) >= 3 =>
          /\ calls[3].wait = calls[1].signal
          /\ calls[3].fence = current_frame
    /\ Len(calls) = 4 => calls[4].wait = calls[3].signal

\* C11 witness: a frame on slot 0 has made its four calls while the submission of the
\* frame before it is still pending.
C11_Witness ==
    /\ pc = "idle"
    /\ Len(calls) = 4
    /\ current_frame = 0
    /\ Len(gpuQueue) = 2

FenceOrphaned(s) ==
    /\ ~fence[s]
    /\ \A k \in 1..Len(gpuQueue) : gpuQueue[k].slot # s

\* C13: a fence is unsignaled with no pending submission only inside the draw that
\* reset it, between the reset and the submit, or after the process has terminated;
\* so draw never returns with such a fence, and every fence wait returns when the GPU
\* completes what was submitted.
C13_NoOrphanedFence ==
    /\ [](\A s \in Slots :
            FenceOrphaned(s) =>
                /\ pc \in {"update", "record", "submit", "panicked", "destroyed"}
                /\ s = current_frame)
    /\ ((pc = "wait") ~> (pc # "wait"))

\* C13 witness: draw has returned to the event loop after a present that reported a
\* stale swapchain, with the fences of both slots unsignaled and their submissions
\* pending.
C13_Witness ==
    /\ pc = "idle"
    /\ lastPresent \in StaleReports
    /\ \A s \in Slots : ~fence[s] /\ ~FenceOrphaned(s)

\* C14: a failure of recreate_swapchain to create the new swapchain does not end the
\* process: the application keeps running with the swapchain still marked dirty.
C14_RecreateFailureIsNotFatal ==
    [][(pc = "recreate_update" /\ pc' # "on_recreate")
          => (pc' = "idle" /\ is_swapchain_dirty' /\ failure' = failure)]_vars

\* C15: a timeout or not-ready result of acquire_next_image or queue_present is
\* treated like a stale swapchain: draw returns dirty and the process does not panic.
C15_TimeoutIsTreatedAsStale ==
    (lastAcquire \in TimeoutReports \/ lastPresent \in TimeoutReports)
        => (pc # "panicked" /\ lastDraw = "dirty")

\* C16: on every path by which the application stops, the GPU objects are destroyed
\* only after wait_for_gpu has returned: no submitted frame is pending when they are
\* destroyed.
C16_IdleBeforeDestroy ==
    pc \in {"destroyed", "panicked"} => DeviceIdle

\* the event loop thread is inside a call of draw that does not return until the GPU
\* or the presentation engine lets it
Blocked ==
    \/ pc = "wait" /\ ~fence[current_frame]
    \/ pc = "gpu_time" /\ total_frame_count >= IN_FLIGHT_FRAMES /\ ~queryPool[current_frame]
    \/ pc = "acquire_blocked"

\* C19: inside draw the thread is blocked on the GPU or the presentation engine only
\* in the wait on the current slot's fence.
C19_OnlyFenceWaitBlocks ==
    Blocked => pc = "wait"

\* the positions of the command c in the recording
Positions(c) == {k \in 1..Len(commands) : commands[k].cmd = c}

\* the command a is recorded, and every a before every b
Before(a, b) ==
    /\ Positions(a) # {}
    /\ Positions(b) # {}
    /\ \A i \in Positions(a) : \A j \in Positions(b) : i < j

IsBarrierOfSwapchain(c) == c.cmd = "barrier" /\ c.image = "swapchain"

IsBarrierOfStorage(c) == c.cmd = "barrier" /\ c.image = "storage"

\* the layout of the image img after the GPU has executed cmds, from the layout l
RECURSIVE LayoutAfter(_, _, _)
LayoutAfter(cmds, img, l) ==
    IF cmds = <<>> THEN l
    ELSE LayoutAfter(Tail(cmds), img,
                     IF Head(cmds).cmd = "barrier" /\ Head(cmds).image = img
                     THEN Head(cmds).new ELSE l)

\* C17: in a complete recording the main pass callbacks (record_raytracing_commands
\* when ray tracing is enabled, then record_raster_commands) come before the GUI pass,
\* all between begin and end; the swapchain image goes UNDEFINED -> TRANSFER_DST ->
\* COLOR_ATTACHMENT -> PRESENT_SRC with ray tracing and UNDEFINED -> COLOR_ATTACHMENT ->
\* PRESENT_SRC without, and with ray tracing the storage image is back in GENERAL.
C17_MainPassThenGuiThenPresentLayout ==
    pc = "submit" =>
        /\ commands[2] = Cmd("begin")
        /\ commands[Len(commands)] = Cmd("end")
        /\ Before("begin", "record_raster_commands")
        /\ Before("record_raster_commands", "begin_rendering")
        /\ Before("begin_rendering", "gui_cmd_draw")
        /\ Before("gui_cmd_draw", "end")
        /\ Positions("begin") = {2}
        /\ raytracing_enabled =>
              /\ Before("begin", "record_raytracing_commands")
              /\ Before("record_raytracing_commands", "record_raster_commands")
              /\ SelectSeq(commands, IsBarrierOfSwapchain) =
                    <<Barrier("swapchain", "UNDEFINED", "TRANSFER_DST_OPTIMAL"),
                      Barrier("swapchain", "TRANSFER_DST_OPTIMAL",
                              "COLOR_ATTACHMENT_OPTIMAL"),
                      Barrier("swapchain", "COLOR_ATTACHMENT_OPTIMAL", "PRESENT_SRC_KHR")>>
              /\ SelectSeq(commands, IsBarrierOfStorage) =
                    <<Barrier("storage", "GENERAL", "TRANSFER_SRC_OPTIMAL"),
                      Barrier("storage", "TRANSFER_SRC_OPTIMAL", "GENERAL")>>
              /\ LayoutAfter(commands, "storage", "GENERAL") = "GENERAL"
        /\ ~raytracing_enabled =>
              /\ Positions("record_raytracing_commands") = {}
              /\ SelectSeq(commands, IsBarrierOfSwapchain) =
                    <<Barrier("swapchain", "UNDEFINED", "COLOR_ATTACHMENT_OPTIMAL"),
                      Barrier("swapchain", "COLOR_ATTACHMENT_OPTIMAL", "PRESENT_SRC_KHR")>>
        /\ \A l \in {"UNDEFINED", "PRESENT_SRC_KHR"} :
              LayoutAfter(commands, "swapchain", l) = "PRESENT_SRC_KHR"

\* C17 witness: with ray tracing enabled a frame has been recorded while the frame
\* before it is pending.
C17_Witness ==
    /\ pc = "submit"
    /\ raytracing_enabled
    /\ Len(gpuQueue) = 1
    /\ Len(commands) > 2

\* the device calls of the ray-tracing extensions
RayTracingDeviceCalls == {AppCall(op, TRUE).device : op \in RayTracingOps}

\* C18: a ray-tracing call made when the context has no ray-tracing context panics
\* with the message of that call and issues no device call; with a ray-tracing context
\* the device call is issued; and record_raytracing_commands is invoked only when
\* raytracing_enabled is true.
C18_RayTracingCallsFailFast ==
    /\ (lastAppOp \in RayTracingOps /\ ~raytracing_enabled) =>
          /\ pc = "panicked"
          /\ failure \in
                {"Cannot call CommandBuffer::trace_rays when ray tracing is not enabled",
                 "Cannot call CommandBuffer::build_acceleration_structures when ray tracing is not enabled",
                 "Cannot call VkContext::create_ray_tracing_pipeline when ray tracing is not enabled"}
    /\ ~raytracing_enabled =>
          \A k \in 1..Len(commands) :
              commands[k].cmd \notin
                  {"cmd_trace_rays", "cmd_build_acceleration_structures",
                   "create_ray_tracing_pipelines", "record_raytracing_commands"}
    /\ (lastAppOp \in RayTracingOps /\ raytracing_enabled /\ pc = "record") =>
          \E k \in 1..Len(commands) :
              /\ commands[k].cmd \in RayTracingDeviceCalls
              /\ commands[k].cmd = AppCall(lastAppOp, TRUE).device

\* C18 witness: without ray tracing, record_raster_commands called trace_rays and the
\* process panicked inside the recording.
C18_Witness ==
    /\ pc = "panicked"
    /\ ~raytracing_enabled
    /\ lastAppOp = "trace_rays"
    /\ Len(commands) > 2

\* C20: recreate_swapchain leaves the frame ring (slot index, fences, query pools),
\* the command buffers, the stats display mode, the camera position and direction and
\* the pending requested format unchanged; it replaces the storage images only when
\* ray tracing is enabled and sets the GUI format only when a format is given; and it
\* sets the camera aspect ratio to that of the new size.
C20_RecreateChangesOnlySwapchainState ==
    [][(pc \in {"recreate_wait", "recreate_update"}
          /\ pc' \in {"recreate_update", "on_recreate"})
         => /\ UNCHANGED <<current_frame, fence, queryPool, waited>>
            /\ UNCHANGED <<command_buffers, stats_display_mode>>
            /\ UNCHANGED requested_swapchain_format
            /\ camera'.position = camera.position
            /\ camera'.direction = camera.direction
            /\ ~raytracing_enabled => UNCHANGED storage_images
            /\ format = NoFormat => UNCHANGED <<guiFormat, swapchainFormat>>
            /\ pc' = "on_recreate" =>
                  /\ camera'.aspect_ratio = windowRatio
                  /\ raytracing_enabled => storage_images' = imageCount'
                  /\ format # NoFormat => guiFormat' = format]_vars

\* C20 witness: with ray tracing enabled, a recreation for a requested format and a
\* new window ratio has replaced the swapchain after a frame was drawn, with the stats
\* display toggled, the camera moved and another request pending.
C20_Witness ==
    /\ pc = "on_recreate"
    /\ raytracing_enabled
    /\ format # NoFormat
    /\ guiFormat = format
    /\ camera.aspect_ratio = "16:9"
    /\ camera.position = "moved"
    /\ stats_display_mode = "Full"
    /\ current_frame = 1
    /\ storage_images # command_buffers

\* C21: as long as the application runs there is one command buffer per image of the
\* current swapchain (and, with ray tracing, one storage image), so the image index
\* of every acquire selects an existing command buffer, also after a recreation that
\* changed the image count.
C21_CommandBufferPerImage ==
    pc \notin {"panicked", "destroyed"} =>
        /\ command_buffers = imageCount
        /\ raytracing_enabled => storage_images = imageCount
        /\ image_index # NoImage => image_index < command_buffers

\* C22: a requested format is never dropped. While the application runs, a pending
\* request changes only by a later request of the application (in App::update) or by
\* the about_to_wait that takes it, and that about_to_wait recreates the swapchain
\* with the format taken: it goes on to recreate_swapchain with it, and the swapchain
\* that recreate_swapchain builds has that format.
C22_RequestedFormatIsNeverDropped ==
    [][/\ (/\ requested_swapchain_format # NoFormat
           /\ requested_swapchain_format' # requested_swapchain_format
           /\ pc' \notin {"panicked", "destroyed"})
          => \/ /\ pc = "update"
                /\ requested_swapchain_format' # NoFormat
             \/ /\ pc = "idle"
                /\ requested_swapchain_format' = NoFormat
                /\ pc' = "recreate_wait"
                /\ format' = requested_swapchain_format
       /\ (pc = "recreate_wait" /\ pc' = "recreate_update") => UNCHANGED format
       /\ (pc = "recreate_update" /\ pc' = "on_recreate" /\ format # NoFormat)
          => swapchainFormat' = format]_vars

\* the positions of about_to_wait inside recreate_swapchain and the callback
RecreatePcs == {"recreate_wait", "recreate_update", "on_recreate"}

\* C23: a dirty flag, set by a Resized event or returned by draw, is cleared only by
\* the draw that follows a recreation in the same about_to_wait; while the flag is set
\* no draw runs (no image is acquired) unless that recreation has run; and the
\* recreation used the window's current size: during a draw the ratio the swapchain
\* was rebuilt for (kept in camera.aspect_ratio) is that of the window.
C23_DirtyOnlyClearedByRecreation ==
    /\ []((pc \in DrawPcs /\ is_swapchain_dirty) => (recreations = 1 /\ callbacks = 1))
    /\ [](pc \in DrawPcs => camera.aspect_ratio = windowRatio)
    /\ [][(is_swapchain_dirty /\ ~is_swapchain_dirty' /\ pc' # "panicked")
            => (pc = "present" /\ recreations = 1 /\ callbacks = 1)]_vars
    /\ [][(pc = "idle" /\ is_swapchain_dirty) => pc' # "next"]_vars

\* C23 witness: after a Resized event with another ratio, the second frame has
\* acquired its image with the flag still set and the swapchain recreated for the new
\* ratio, and the application has requested a format.
C23_Witness ==
    /\ pc = "submit"
    /\ is_swapchain_dirty
    /\ recreations = 1
    /\ windowRatio = "16:9"
    /\ camera.aspect_ratio = "16:9"
    /\ requested_swapchain_format # NoFormat
    /\ total_frame_count = 2

\* C24: no draw and no recreation runs while the window has a zero width or height;
\* while the size is zero the dirty flag is set; and the about_to_wait at the first
\* frame boundary with a non-zero size and the flag set recreates the swapchain.
C24_NoDrawAtZeroSize ==
    /\ [](pc \in DrawPcs \cup RecreatePcs => ~windowZero)
    /\ []((windowZero /\ pc = "idle") => is_swapchain_dirty)
    /\ [][(pc = "idle" /\ is_swapchain_dirty /\ ~windowZero /\ pc' # "idle")
            => pc' = "recreate_wait"]_vars
    /\ [][(pc = "idle" /\ windowZero) => pc' = "idle"]_vars

\* C24 witness: the window had a zero size at a frame boundary after a frame was
\* drawn, then got a size again, and the swapchain is being recreated.
C24_Witness ==
    /\ pc = "recreate_update"
    /\ total_frame_count = 1
    /\ lastDraw = "clean"
    /\ ~windowZero
    /\ windowRatio = "16:9"
    /\ camera.aspect_ratio = "4:3"

\* C25: every texture egui reports as freed is passed to free_textures exactly once:
\* never a second time, and the draw that reuses the slot holding it (a draw that
\* acquired its image) passes it.
C25_TextureFreedExactlyOnce ==
    /\ [](\A i \in TextureIds : freeCalls[i] <= 1)
    /\ [][(pc = "reset" /\ pc' = "update")
            => \A i \in gui_textures_to_free[current_frame] :
                 freeCalls'[i] = freeCalls[i] + 1]_vars

\* C26: free_textures is called with a texture only in a draw that has acquired its
\* image, on the slot of the frame that reported the texture, in a later draw than
\* that frame, after the slot's fence wait has returned and with no submission on that
\* slot pending (the GPU has completed the reporting frame, and so every frame
\* submitted before it).
C26_TextureFreedAfterGpuCompletion ==
    /\ [](\A s \in Slots : \A i \in gui_textures_to_free[s] : reportSlot[i] = s)
    /\ [][\A i \in TextureIds :
            (freeCalls'[i] > freeCalls[i])
              => /\ pc = "reset"
                 /\ lastAcquire \in {"success", "suboptimal"}
                 /\ waited[current_frame]
                 /\ reportSlot[i] = current_frame
                 /\ \A k \in 1..Len(gpuQueue) : gpuQueue[k].slot # reportSlot[i]]_vars

\* C26 witness: a texture reported by a frame on slot 1 has been freed by a later
\* draw on slot 1, after a frame on that slot ended at an out-of-date acquire, while
\* the frame drawn in between on slot 0 is still pending on the GPU.
C26_Witness ==
    /\ pc = "update"
    /\ current_frame = 1
    /\ \E i \in TextureIds : freeCalls[i] = 1 /\ reportSlot[i] = 1
    /\ total_frame_count = 5
    /\ ~undisturbed
    /\ gpuQueue # <<>>

\* the device d of the list offers a graphics family and a present family that have
\* queues, and supports what the application requires
Suitable(devs, d) ==
    /\ \E k \in 1..Len(devs[d].queue_families) :
         devs[d].queue_families[k].has_queues /\ devs[d].queue_families[k].graphics
    /\ \E k \in 1..Len(devs[d].queue_families) :
         devs[d].queue_families[k].has_queues /\ devs[d].queue_families[k].present
    /\ devs[d].supported

\* C27: select_suitable_physical_device returns a suitable device with a graphics
\* family and a present family of that device, and returns an error exactly when no
\* device of the list is suitable.
C27_FamiliesBelongToSelectedDevice ==
    selected # NotSelected =>
        /\ selected.result = "Err" <=> ~\E d \in 1..Len(devices) : Suitable(devices, d)
        /\ selected.result = "Ok" =>
              /\ Suitable(devices, selected.device)
              /\ selected.graphics[1] = selected.device
              /\ selected.present[1] = selected.device

Range(s) == {s[i] : i \in 1..Len(s)}

\* what the claim lists as destroyed before the Context: the objects of the
\* application object, the swapchain, the command pool, the storage images, the
\* semaphores, fences and query pools of the frame ring, the GUI context
DestroyedBeforeContext ==
    AppResources \cup
    {"swapchain", "command_pool", "storage_image.view", "storage_image.image",
     "image_available_semaphore", "render_finished_semaphore", "fence",
     "timing_query_pool", "gui_context.renderer"}

\* the objects created from the device: those that hold an Arc<Device>, the
\* swapchain, the images, their views and the buffers, and the allocator, the ray
\* tracing context and the GUI renderer, which hold a clone of the ash device or its
\* function pointers
CreatedFromDevice ==
    (HoldsDevice \ {"context.device"})
        \cup {"app.buffer", "swapchain", "storage_image.view", "storage_image.image",
              "allocator", "ray_tracing", "gui_context.renderer"}

\* C28: in the teardown no part of the Context is destroyed while an object of the
\* application, the swapchain, the command pool, a storage image, a semaphore, fence or
\* query pool of the ring or the GUI context is still alive, and the device is
\* destroyed only when no object created from it is still alive.
C28_ContextDestroyedLast ==
    /\ Range(destroyed) \cap (Range(ContextFields(TRUE)) \cup {"device"}) # {}
          => Range(dropQueue) \cap DestroyedBeforeContext = {}
    /\ "device" \in Range(destroyed)
          => Range(dropQueue) \cap CreatedFromDevice = {}

C28_Witness ==
    /\ dropQueue = <<>>
    /\ "device" \in Range(destroyed)
    /\ "storage_image.image" \in Range(destroyed)
    /\ "app.pipeline" \in Range(destroyed)
    /\ "app.buffer" \in Range(destroyed)
    /\ destroyed[Len(destroyed)] = "_entry"
    /\ pc = "destroyed"

\* the value r is the smallest multiple of the power of two alignment that is at
\* least size: r >= size, r - size < alignment, and r has no bit below the bit of
\* alignment
SmallestMultiple(r, size, alignment) ==
    /\ ~BitLess(r, size)
    /\ BitLess(BitSub(r, size), alignment)
    /\ BitAnd(r, BitSub(alignment, FromNat(1, Len(alignment)))) = FromNat(0, Len(r))

\* C29: compute_aligned_size and compute_aligned_size_of return the smallest multiple
\* of the power-of-two alignment that is at least the size, for every size, without
\* overflow of the 32-bit or 64-bit arithmetic, and applied to their own result they
\* return it unchanged.
C29_AlignedSizeIsSmallestMultiple ==
    alignResult # NoAlignResult =>
        /\ alignResult.outcome = "ok"
        /\ SmallestMultiple(alignResult.value, alignArgs.size, alignArgs.alignment)
        /\ alignArgs.again => alignResult.value = alignArgs.size

\* what holds of compute_aligned_size_of, whose size is at most isize::MAX, and of
\* compute_aligned_size while size + alignment - 1 fits in 32 bits
AlignedSizeWithoutOverflow ==
    (/\ alignResult # NoAlignResult
     /\ \/ alignArgs.fn = "compute_aligned_size_of"
        \/ ~AddOverflows(alignArgs.size,
                         BitSub(alignArgs.alignment, FromNat(1, U32_BITS))))
        => C29_AlignedSizeIsSmallestMultiple

\* the last n elements of the sequence s
LastOf(s, n) == SubSeq(s, Len(s) - n + 1, Len(s))

\* C30: a frame-time log never holds more than max_size values, and it holds the most
\* recent min(number of pushes, max_size) pushed values in the order they were pushed.
C30_QueueKeepsMostRecent ==
    /\ Len(frame_time_ms_log.values) <= frame_time_ms_log.max_size
    /\ frame_time_ms_log.values =
          LastOf(pushed, IF Len(pushed) < frame_time_ms_log.max_size
                         THEN Len(pushed) ELSE frame_time_ms_log.max_size)

C30_Witness ==
    /\ frame_time_ms_log.max_size = 2
    /\ Len(pushed) = 4
    /\ pushed[1] # pushed[3]
    /\ frame_time_ms_log.values = <<pushed[3], pushed[4]>>
    /\ pushed[3] # pushed[4]

====
